---- MODULE Spec2Model ----
(***************************************************************************)
(* Model of the agent pipeline of grist-ai-api: the plan registry          *)
(* (app/pipeline/plans.py), the execution context                          *)
(* (app/pipeline/context.py), the router (app/agents/router_agent.py) and  *)
(* the pipeline executor (app/pipeline/executor.py).                       *)
(*                                                                         *)
(* One request is followed from routing to the final ChatResponse.  The    *)
(* stage handlers and the LLM client are injected collaborators: what they *)
(* return or raise is an input, drawn from small sets.                     *)
(***************************************************************************)
EXTENDS Integers, Sequences, FiniteSets, TLC

\* ------------------------------------------------------------------------
\* Bounds
\* ------------------------------------------------------------------------

\* longest stage list of a plan handed directly to execute
MaxStages == 2

\* most rows of a query result handed to an agent on its own
MaxRows == 2

\* ------------------------------------------------------------------------
\* Python values
\* ------------------------------------------------------------------------

\* Python's None in a slot that otherwise holds a string
None == "<None>"

\* Python truthiness of an Optional[str]: None and "" are falsy
Truthy(s) == s # None /\ s # ""

\* str(n) for a natural number
Digit(d) == SubSeq("0123456789", d + 1, d + 1)

RECURSIVE NatToStr(_)
NatToStr(n) == IF n < 10 THEN Digit(n) ELSE NatToStr(n \div 10) \o Digit(n % 10)

\* one character of a string
CharAt(s, i) == SubSeq(s, i, i)

UpperChars == "ABCDEFGHIJKLMNOPQRSTUVWXYZ"
LowerChars == "abcdefghijklmnopqrstuvwxyz"

\* str.lower() on one character
LowerChar(c) ==
    IF \E i \in 1..26 : CharAt(UpperChars, i) = c
    THEN LET i == CHOOSE j \in 1..26 : CharAt(UpperChars, j) = c
         IN  CharAt(LowerChars, i)
    ELSE c

\* str.lower()
RECURSIVE StrLower(_)
StrLower(s) ==
    IF Len(s) = 0 THEN s
    ELSE LowerChar(CharAt(s, 1)) \o StrLower(SubSeq(s, 2, Len(s)))

IsSpace(c) == c \in {" ", "\n", "\t", "\r"}

\* str.strip(): drop leading and trailing whitespace
RECURSIVE StrStrip(_)
StrStrip(s) ==
    IF Len(s) = 0 THEN s
    ELSE IF IsSpace(CharAt(s, 1)) THEN StrStrip(SubSeq(s, 2, Len(s)))
    ELSE IF IsSpace(CharAt(s, Len(s))) THEN StrStrip(SubSeq(s, 1, Len(s) - 1))
    ELSE s

\* str.upper(): the upper-case letter of each lower-case letter
UpperOf ==
    [c \in {CharAt(LowerChars, k) : k \in 1..26} |->
        CharAt(UpperChars, CHOOSE k \in 1..26 : CharAt(LowerChars, k) = c)]

RECURSIVE StrUpper(_)
StrUpper(s) ==
    IF Len(s) = 0 THEN ""
    ELSE (IF CharAt(s, 1) \in DOMAIN UpperOf THEN UpperOf[CharAt(s, 1)]
          ELSE CharAt(s, 1))
            \o StrUpper(SubSeq(s, 2, Len(s)))

\* s.startswith(prefix)
StartsWith(s, prefix) ==
    Len(s) >= Len(prefix) /\ SubSeq(s, 1, Len(prefix)) = prefix

\* sub in s
Contains(s, sub) ==
    \E k \in 1..(Len(s) - Len(sub) + 1) : SubSeq(s, k, k + Len(sub) - 1) = sub

\* s.count(c) for a single character c
CountChar(s, c) == Cardinality({k \in 1..Len(s) : CharAt(s, k) = c})

\* "\n".join(lines)
RECURSIVE JoinLines(_)
JoinLines(lines) ==
    IF Len(lines) = 0 THEN ""
    ELSE IF Len(lines) = 1 THEN lines[1]
    ELSE lines[1] \o "\n" \o JoinLines(Tail(lines))

\* the sequences over S of length at most n
RECURSIVE SeqsUpTo(_, _)
SeqsUpTo(S, n) ==
    IF n = 0 THEN {<<>>}
    ELSE LET shorter == SeqsUpTo(S, n - 1)
         IN  shorter \cup {Append(q, x) : q \in shorter, x \in S}

\* ------------------------------------------------------------------------
\* Plan registry (app/pipeline/plans.py)
\* ------------------------------------------------------------------------

AgentType == {"generic", "sql", "analysis", "architecture"}

ExecutionPlan(name, agents, requires_api_key) ==
    [name |-> name, agents |-> agents, requires_api_key |-> requires_api_key]

AVAILABLE_PLANS ==
    [n \in {"generic", "data_query", "architecture_review"} |->
        CASE n = "generic" -> ExecutionPlan("generic", <<"generic">>, FALSE)
          [] n = "data_query" -> ExecutionPlan("data_query", <<"sql", "analysis">>, TRUE)
          [] n = "architecture_review" ->
                ExecutionPlan("architecture_review", <<"architecture">>, TRUE)]

\* get_plan: the plan, or KeyError
get_plan(name) ==
    IF name \notin DOMAIN AVAILABLE_PLANS
    THEN [raised |-> TRUE, plan |-> ExecutionPlan("<KeyError>", <<>>, FALSE)]
    ELSE [raised |-> FALSE, plan |-> AVAILABLE_PLANS[name]]

list_plans == DOMAIN AVAILABLE_PLANS

\* ------------------------------------------------------------------------
\* Query results: the dictionary GristSQLRunner.execute_sql returns
\* ------------------------------------------------------------------------

\* sep.join(seq)
RECURSIVE Join(_, _)
Join(sep, seq) ==
    IF Len(seq) = 0 THEN ""
    ELSE IF Len(seq) = 1 THEN seq[1]
    ELSE seq[1] \o sep \o Join(sep, Tail(seq))

\* the column names of the results
Columns == <<"name", "amount">>

\* one element of "records": a dictionary (is_dict) with str(row.get(col, ""))
\* per column, or another JSON value; repr is its str()
Row(is_dict, name, amount, repr) ==
    [is_dict |-> is_dict,
     cells |-> [c \in {"name", "amount"} |-> IF c = "name" THEN name ELSE amount],
     repr |-> repr]

Rows ==
    { Row(TRUE, "Alice", "150", "{'name': 'Alice', 'amount': 150}"),
      Row(TRUE, "Compagnie Generale des Eaux de Paris", "",
          "{'name': 'Compagnie Generale des Eaux de Paris'}"),
      Row(FALSE, "", "", "['Alice', 150]") }

\* the result dictionary; error is None when the key is absent, row_count is
\* 0 when the key is absent
QueryResult(success, data, columns, error, row_count) ==
    [success |-> success, data |-> data, columns |-> columns, error |-> error,
     row_count |-> row_count]

\* ------------------------------------------------------------------------
\* AnalysisAgent.process_message (app/agents/analysis_agent.py)
\* ------------------------------------------------------------------------

\* _format_data_for_analysis: rows shown at most
max_rows == 20

\* variant: the ellipsis is added to the first 30 characters
CellText_CutAt30(value) ==
    IF Len(value) > 30 THEN SubSeq(value, 1, 30) \o "..." ELSE value

\* _format_data_for_analysis: "if len(value) > 30: value = value[:27] + '...'"
CellText(value) ==
    IF Len(value) > 30 THEN SubSeq(value, 1, 27) \o "..." ELSE value

\* seq[:n]
Prefix(seq, n) == SubSeq(seq, 1, IF Len(seq) < n THEN Len(seq) ELSE n)

\* _format_data_for_analysis: the text, or the exception of row.get on a
\* row that is no dictionary
_format_data_for_analysis(r) ==
    IF ~r.success \/ Len(r.data) = 0
    THEN [raised |-> FALSE, text |-> "Aucune donnee disponible"]
    ELSE LET n == Len(r.data)
             shown == Prefix(r.data, max_rows)
             head == "Donnees (" \o NatToStr(n) \o " ligne"
                        \o (IF n > 1 THEN "s" ELSE "") \o "):\n\n"
             line(row) == "| " \o Join(" | ",
                              [k \in DOMAIN r.columns |->
                                  CellText(row.cells[r.columns[k]])]) \o " |\n"
             table == "| " \o Join(" | ", r.columns) \o " |\n"
                        \o "| " \o Join(" | ", [k \in DOMAIN r.columns |-> "---"])
                        \o " |\n"
                        \o Join("", [k \in DOMAIN shown |-> line(shown[k])])
             rest == IF n > max_rows
                     THEN "\n... et " \o NatToStr(n - max_rows)
                            \o " autres lignes.\n"
                     ELSE ""
         IN  IF Len(r.columns) > 0
             THEN IF \E k \in DOMAIN shown : ~shown[k].is_dict
                  THEN [raised |-> TRUE, text |-> ""]
                  ELSE [raised |-> FALSE, text |-> head \o table \o rest]
             ELSE [raised |-> FALSE,
                   text |-> head \o "["
                             \o Join(", ", [k \in DOMAIN shown |-> shown[k].repr])
                             \o "]"]

\* _generate_numeric_summary: its first line, or the exception of row.get on
\* a row that is no dictionary (the per-column statistics that follow are
\* floating-point sums and are not part of any text the agent returns)
_generate_numeric_summary(r) ==
    IF ~r.success \/ Len(r.data) = 0
    THEN [raised |-> FALSE, text |-> "Aucune donnee numerique disponible"]
    ELSE IF Len(r.columns) > 0 /\ \E k \in DOMAIN r.data : ~r.data[k].is_dict
    THEN [raised |-> TRUE, text |-> ""]
    ELSE [raised |-> FALSE,
          text |-> "Total des lignes: " \o NatToStr(Len(r.data))]

\* the templated messages (pictographs and bullet signs of the source are
\* written as "-" or left out, and accented letters without their accent,
\* here and in every text of the module: one character stays one character)
_handle_sql_error(r) ==
    JoinLines(<< "## Erreur d'execution SQL",
                 "",
                 "La requete SQL a echoue et ne peut pas etre analysee.",
                 "",
                 "**Erreur technique :** "
                    \o (IF r.error = None THEN "Erreur SQL inconnue" ELSE r.error),
                 "",
                 "### Suggestions pour resoudre :",
                 "- Verifiez vos permissions d'acces aux donnees",
                 "- Reformulez votre question avec des termes plus simples",
                 "- Assurez-vous que les tables et colonnes existent",
                 "- Contactez l'administrateur si l'erreur persiste" >>)

_handle_empty_results ==
    JoinLines(<< "## Analyse des resultats",
                 "",
                 "La requete s'est executee avec succes mais n'a retourne aucune donnee.",
                 "",
                 "### Que signifie ce resultat ?",
                 "",
                 "**C'est normal !** Cela peut signifier que :",
                 "- Aucune donnee ne correspond a vos criteres de recherche",
                 "- Les filtres appliques sont trop restrictifs",
                 "- Les donnees recherchees n'existent pas encore dans votre base",
                 "",
                 "### Suggestions pour approfondir :",
                 "- **Elargir la recherche :** Essayez avec des criteres moins restrictifs",
                 "- **Verifier les donnees :** Demandez un apercu general de vos tables",
                 "- **Reformuler :** Posez la question differemment",
                 "",
                 "**Exemples de questions plus larges :**",
                 "- 'Montre-moi un apercu de toutes les donnees'",
                 "- 'Quelles sont les donnees disponibles dans cette table ?'",
                 "- 'Combien de lignes contient cette table ?'" >>)

\* _get_fallback_analysis, for a result with row_count rows
_get_fallback_analysis(row_count) ==
    IF row_count = 0
    THEN "Aucune donnee trouvee pour cette requete."
    ELSE "J'ai trouve " \o NatToStr(row_count) \o " resultat"
            \o (IF row_count > 1 THEN "s" ELSE "")
            \o " mais je ne peux pas les analyser pour le moment."

\* variant: only the success flag is tested
AnalysisBranch_SuccessOnly(r) == IF ~r.success THEN "sql_error" ELSE "llm"

\* process_message, the branch on the result: a failed query, a successful
\* query without rows, or rows to hand to the LLM
AnalysisBranch(r) ==
    IF ~r.success THEN "sql_error"
    ELSE IF Len(r.data) = 0 THEN "empty"
    ELSE "llm"

\* process_message up to the LLM call: the text it returns without a call,
\* or the prompt's data section
AnalysisBeforeLLM(r) ==
    LET f == _format_data_for_analysis(r)
        n == _generate_numeric_summary(r)
        b == AnalysisBranch(r)
    IN  IF f.raised \/ n.raised
        THEN [llm |-> FALSE, text |-> _get_fallback_analysis(Len(r.data))]
        ELSE IF b = "sql_error"
        THEN [llm |-> FALSE, text |-> _handle_sql_error(r)]
        ELSE IF b = "empty"
        THEN [llm |-> FALSE, text |-> _handle_empty_results]
        ELSE [llm |-> TRUE, text |-> f.text]

\* _generate_analysis after the call: the reply stripped, or the fallback
\* text for {"data": []}
_generate_analysis(reply) ==
    IF reply.outcome = "content"
    THEN StrStrip(reply.content)
    ELSE _get_fallback_analysis(0)

\* the query results process_message is called with
AnalysisInputs ==
    {QueryResult(TRUE, d, c, None, Len(d)) :
        d \in SeqsUpTo(Rows, MaxRows), c \in {<<>>, Columns}}
    \cup {QueryResult(FALSE, d, <<>>, e, 0) :
        d \in SeqsUpTo(Rows, 1), e \in {None, "Erreur HTTP 403: Forbidden"}}

\* ------------------------------------------------------------------------
\* GristSQLRunner (app/grist/sql_runner.py)
\* ------------------------------------------------------------------------

forbidden_keywords ==
    <<"DROP", "DELETE", "UPDATE", "INSERT", "ALTER", "CREATE", "TRUNCATE">>

\* the first forbidden keyword (in list order) that text contains
FirstForbidden(text) ==
    LET hits == {k \in DOMAIN forbidden_keywords :
                    Contains(text, forbidden_keywords[k])}
    IN  forbidden_keywords[CHOOSE k \in hits : \A j \in hits : k <= j]

\* variant: the keywords are looked for in the query as written
validate_sql_query_CaseSensitive(sql_query) ==
    LET sql_clean == StrUpper(StrStrip(sql_query))
        written == StrStrip(sql_query)
    IN  IF \E k \in DOMAIN forbidden_keywords :
                Contains(written, forbidden_keywords[k])
        THEN [is_valid |-> FALSE,
              message |-> "Requete interdite: contient le mot-cle '"
                            \o FirstForbidden(written) \o "'"]
        ELSE IF ~StartsWith(sql_clean, "SELECT")
        THEN [is_valid |-> FALSE,
              message |-> "Seules les requetes SELECT sont autorisees"]
        ELSE IF CountChar(sql_clean, "(") # CountChar(sql_clean, ")")
        THEN [is_valid |-> FALSE, message |-> "Parentheses non equilibrees"]
        ELSE [is_valid |-> TRUE, message |-> "Requete valide"]

validate_sql_query(sql_query) ==
    LET sql_clean == StrUpper(StrStrip(sql_query))
    IN  IF \E k \in DOMAIN forbidden_keywords :
                Contains(sql_clean, forbidden_keywords[k])
        THEN [is_valid |-> FALSE,
              message |-> "Requete interdite: contient le mot-cle '"
                            \o FirstForbidden(sql_clean) \o "'"]
        ELSE IF ~StartsWith(sql_clean, "SELECT")
        THEN [is_valid |-> FALSE,
              message |-> "Seules les requetes SELECT sont autorisees"]
        ELSE IF CountChar(sql_clean, "(") # CountChar(sql_clean, ")")
        THEN [is_valid |-> FALSE, message |-> "Parentheses non equilibrees"]
        ELSE [is_valid |-> TRUE, message |-> "Requete valide"]

\* every failed result of execute_sql
FailedResult(error) == QueryResult(FALSE, <<>>, <<>>, error, 0)

\* what client.get produces: a response (its status, its text and what
\* response.json() gives), a timeout, or another exception.  json is "dict"
\* (an object, with or without the keys records and columns), "list" (another
\* JSON value) or "invalid" (json() raises); records_null is "records": null
HttpResponse(status_code, text, json, has_records, records_null, records, columns) ==
    [outcome |-> "response", status_code |-> status_code, text |-> text,
     json |-> json, has_records |-> has_records,
     records_null |-> records_null, records |-> records, columns |-> columns]

HttpFailure(outcome, msg) ==
    [outcome |-> outcome, status_code |-> 0, text |-> msg, json |-> "invalid",
     has_records |-> FALSE, records_null |-> FALSE, records |-> <<>>,
     columns |-> <<>>]

HttpOutcomes ==
    {HttpResponse(200, "", "dict", TRUE, FALSE, d, Columns) :
        d \in SeqsUpTo(Rows, MaxRows)}
    \cup { HttpResponse(200, "", "dict", FALSE, FALSE, <<>>, <<>>),
           HttpResponse(200, "", "dict", TRUE, TRUE, <<>>, Columns),
           HttpResponse(200, "[]", "list", FALSE, FALSE, <<>>, <<>>),
           HttpResponse(200, "<html>", "invalid", FALSE, FALSE, <<>>, <<>>),
           HttpResponse(403, "Forbidden", "invalid", FALSE, FALSE, <<>>, <<>>),
           HttpResponse(500, "", "invalid", FALSE, FALSE, <<>>, <<>>),
           HttpFailure("timeout", ""),
           HttpFailure("exception", "Connection refused") }

ExceptionResult(msg) ==
    FailedResult("Exception lors de l'execution SQL: " \o msg)

\* variant: the rows are counted by the columns entry
SuccessResult_CountsColumns(h) ==
    QueryResult(TRUE, h.records, h.columns, None, Len(h.columns))

\* execute_sql, status 200 and a JSON object whose records are a list
SuccessResult(h) ==
    QueryResult(TRUE, h.records, h.columns, None, Len(h.records))

\* execute_sql once client.get has ended with h
execute_sql_response(h) ==
    CASE h.outcome = "timeout" ->
            FailedResult("Timeout lors de l'execution de la requete SQL")
      [] h.outcome = "exception" -> ExceptionResult(h.text)
      [] h.outcome = "response" /\ h.status_code # 200 ->
            FailedResult("Erreur HTTP " \o NatToStr(h.status_code) \o ": "
                            \o h.text)
      [] h.outcome = "response" /\ h.status_code = 200 ->
            IF h.json = "invalid"
            THEN ExceptionResult("Expecting value: line 1 column 1 (char 0)")
            ELSE IF h.json = "list"
            THEN ExceptionResult("'list' object has no attribute 'get'")
            ELSE IF h.has_records /\ h.records_null
            THEN ExceptionResult("object of type 'NoneType' has no len()")
            ELSE SuccessResult(h)

\* the queries execute_sql is called with
SqlQueries ==
    { "SELECT 1", "select a from t", "  SELECT (1)\n", "SELECT (1",
      "SELECT 1)", "DROP TABLE t", "SELECT 1; drop table t",
      "SELECT created FROM t", "UPDATE t SET a = 1", "INSERT INTO t",
      "delete from t", "ALTER TABLE t", "TRUNCATE t", "SHOW TABLES", "",
      "WITH x AS (SELECT 1) SELECT 2" }

\* ------------------------------------------------------------------------
\* SQLAgent: the response text (app/agents/sql_agent.py)
\* ------------------------------------------------------------------------

\* GristSQLRunner.format_results_for_analysis: 10 rows at most, 50 characters
\* per value
format_results_for_analysis(r) ==
    IF ~r.success
    THEN "Erreur lors de l'execution de la requete: "
            \o (IF r.error = None THEN "Erreur inconnue" ELSE r.error)
    ELSE IF Len(r.data) = 0 THEN "Aucune donnee trouvee pour cette requete."
    ELSE LET n == Len(r.data)
             shown == Prefix(r.data, 10)
             cell(v) == IF Len(v) > 50 THEN SubSeq(v, 1, 47) \o "..." ELSE v
             line(row) == "| " \o Join(" | ",
                              [k \in DOMAIN r.columns |->
                                  cell(row.cells[r.columns[k]])]) \o " |\n"
             head == "Resultats de la requete (" \o NatToStr(n) \o " lignes):\n\n"
         IN  IF Len(r.columns) > 0
             THEN head \o "| " \o Join(" | ", r.columns) \o " |\n"
                    \o "| " \o Join(" | ", [k \in DOMAIN r.columns |-> "---"])
                    \o " |\n"
                    \o Join("", [k \in DOMAIN shown |-> line(shown[k])])
                    \o (IF n > 10
                        THEN "\n... et " \o NatToStr(n - 10) \o " autres lignes.\n"
                        ELSE "")
             ELSE head \o "["
                    \o Join(", ", [k \in DOMAIN r.data |-> r.data[k].repr]) \o "]"

\* _format_successful_sql_response (rows of r are dictionaries; the code fence
\* of the source is written ~~~)
_format_successful_sql_response(sql_query, r) ==
    IF r.row_count = 0
    THEN "J'ai execute cette requete :\n\n~~~sql\n" \o sql_query \o "\n~~~\n\n"
            \o "**Resultat :** Aucune donnee ne correspond aux criteres de votre recherche.\n\n"
            \o "**Suggestions :**\n"
            \o "- Verifiez si les donnees existent dans vos tables\n"
            \o "- Essayez d'elargir vos criteres de recherche\n"
            \o "- Reformulez votre question avec des termes differents\n\n"
            \o "*Cette absence de resultats peut etre normale selon vos donnees.*"
    ELSE JoinLines(<< "Voici les resultats pour votre question :",
                      "",
                      "**Requete executee :**",
                      "~~~sql",
                      sql_query,
                      "~~~",
                      "",
                      "**Resultats (" \o NatToStr(r.row_count) \o " ligne"
                          \o (IF r.row_count > 1 THEN "s" ELSE "") \o ") :**",
                      "",
                      format_results_for_analysis(r) >>)

\* ------------------------------------------------------------------------
\* Inputs: what the injected collaborators return or raise
\* ------------------------------------------------------------------------

\* the credential of the request: absent (None), empty, or present
ApiKeys == {None, "", "key"}

\* the agents dictionaries an executor is constructed with
AgentDicts == SUBSET AgentType

\* query results a SQL handler hands back (None, or the runner's dictionary)
NoResults == [is_none |-> TRUE, success |-> FALSE, row_count |-> 0]

SqlResult(success, row_count) ==
    [is_none |-> FALSE, success |-> success, row_count |-> row_count]

\* what SQLAgent.process_message returns: None, or the tuple
\* (response_text, sql_query, sql_results)
SqlNone == [is_none |-> TRUE, response |-> None, sql_query |-> None,
            sql_results |-> NoResults]

SqlTuple(response, sql_query, sql_results) ==
    [is_none |-> FALSE, response |-> response, sql_query |-> sql_query,
     sql_results |-> sql_results]

SqlReturns ==
    { SqlNone,
      SqlTuple("Pas de schemas", None, NoResults),
      SqlTuple("Resultats SQL", "SELECT 1", SqlResult(TRUE, 2)),
      SqlTuple(_format_successful_sql_response(
                   "SELECT 1", QueryResult(TRUE, <<>>, Columns, None, 0)),
               "SELECT 1", SqlResult(TRUE, 0)),
      SqlTuple("Erreur SQL", "SELECT 1", SqlResult(FALSE, 0)),
      SqlTuple("", "SELECT 1", SqlResult(TRUE, 2)) }

\* error messages a SQL handler records in the context
SqlErrors == {"Permission denied"}

\* replies of the Generic and Analysis handlers
GenericReturns == {"", "Bonjour"}
AnalysisReturns == {"", "Analyse des resultats", _handle_empty_results}

\* ArchitectureAnalysis objects of the Architecture handler
NoAnalysis == [is_none |-> TRUE, recommendations |-> <<>>, total_tables |-> 0]

ArchitectureReturns ==
    { [is_none |-> FALSE, recommendations |-> r, total_tables |-> t] :
        r \in {<<>>, <<"Fusionner A et B", "Ajouter une cle">>}, t \in {3} }

\* exceptions: the class and the message
Exc(kind, msg) == [kind |-> kind, msg |-> msg]

HandlerExceptions == {Exc("Exception", "Agent crashed")}

\* ------------------------------------------------------------------------
\* Execution context (app/pipeline/context.py)
\* ------------------------------------------------------------------------

ExecutionContext(key) ==
    [ grist_api_key |-> key,
      sql_query |-> None,
      sql_results |-> NoResults,
      analysis |-> None,
      architecture_analysis |-> NoAnalysis,
      response_text |-> None,
      agent_used |-> "none",
      data_analyzed |-> FALSE,
      error |-> None,
      execution_trace |-> <<>> ]

\* outcome of a context operation: the context it leaves, and whether it raised
Ok(c) == [ctx |-> c, raised |-> FALSE, exc |-> Exc("", "")]
Raise(c, e) == [ctx |-> c, raised |-> TRUE, exc |-> e]

has(c, key) ==
    CASE key = "sql_results" -> ~c.sql_results.is_none
      [] key = "architecture_analysis" -> ~c.architecture_analysis.is_none
      [] OTHER -> c[key] # None

add_trace(c, agent_name, action) ==
    [c EXCEPT !.execution_trace = Append(@, agent_name \o ": " \o action)]

\* variant: a new response text clears the error
set_response_ClearsError(c, text, agent_name) ==
    Ok(add_trace([c EXCEPT !.response_text = text, !.agent_used = agent_name,
                           !.error = None],
                 agent_name, "Set response"))

\* len(text) raises on None, after both fields have been assigned
set_response(c, text, agent_name) ==
    LET c1 == [c EXCEPT !.response_text = text, !.agent_used = agent_name]
    IN  IF text = None
        THEN Raise(c1, Exc("TypeError", "object of type 'NoneType' has no len()"))
        ELSE Ok(add_trace(c1, agent_name,
                          "Set response (" \o NatToStr(Len(text)) \o " chars)"))

\* variant: recording an error leaves the attribution as it was
set_error_KeepsAgent(c, error_message, agent_name) ==
    add_trace([c EXCEPT !.error = error_message], agent_name,
              "Error: " \o error_message)

set_error(c, error_message, agent_name) ==
    add_trace([c EXCEPT !.error = error_message, !.agent_used = agent_name],
              agent_name, "Error: " \o error_message)

\* ------------------------------------------------------------------------
\* Pipeline executor (app/pipeline/executor.py): the pure parts
\* ------------------------------------------------------------------------

MissingKeyMessage == "Cette operation necessite une cle API Grist"

FallbackResponse == "Desole, je n'ai pas pu generer de reponse."

NoResponse ==
    [response |-> None, agent_used |-> None, sql_query |-> None,
     data_analyzed |-> FALSE, error |-> None]

ChatResponse(c) ==
    [response |-> c.response_text, agent_used |-> c.agent_used,
     sql_query |-> c.sql_query, data_analyzed |-> c.data_analyzed,
     error |-> c.error]

\* variant: only a None credential counts as absent
MissingApiKey_NoneOnly(p, c) == p.requires_api_key /\ c.grist_api_key = None

\* the precondition of execute: the plan needs a credential the context lacks
MissingApiKey(p, c) == p.requires_api_key /\ ~Truthy(c.grist_api_key)

\* variant: only an unset (None) text is replaced
NeedsDefaultResponse_NoneOnly(c) == c.response_text = None

\* _build_response: is the default response substituted?
NeedsDefaultResponse(c) == ~Truthy(c.response_text)

\* _build_response: the context it leaves (it writes the default into it)
_build_context(c) ==
    IF NeedsDefaultResponse(c)
    THEN [c EXCEPT !.response_text = FallbackResponse, !.agent_used = "none"]
    ELSE c

_build_response(c) == ChatResponse(_build_context(c))

\* variant: an unregistered stage is recorded as an error
AgentUnavailable_Error(c, agent_type) ==
    set_error(c, "Agent non disponible", agent_type)

\* _execute_agent, agent not in self.agents: the context it leaves
AgentUnavailable(c, agent_type) == c

_format_architecture_response(analysis) ==
    IF Len(analysis.recommendations) = 0
    THEN "Votre structure semble correcte pour l'instant."
    ELSE JoinLines(analysis.recommendations)

_execute_generic_agent(c, response) == set_response(c, response, "generic")

\* variant: a result without rows is recorded as an error
_execute_sql_agent_EmptyIsError(c, r) ==
    IF r.is_none
    THEN Raise(c, Exc("TypeError", "cannot unpack non-iterable NoneType object"))
    ELSE LET c1 == [c EXCEPT !.sql_query = r.sql_query,
                             !.sql_results = r.sql_results,
                             !.data_analyzed = TRUE]
         IN  IF ~r.sql_results.is_none /\ r.sql_results.row_count = 0
             THEN Ok(set_error(c1, "Aucun resultat", "sql"))
             ELSE set_response(c1, r.response, "sql")

_execute_sql_agent(c, r) ==
    IF r.is_none
    THEN Raise(c, Exc("TypeError", "cannot unpack non-iterable NoneType object"))
    ELSE LET c1 == [c EXCEPT !.sql_query = r.sql_query,
                             !.sql_results = r.sql_results,
                             !.data_analyzed = TRUE]
             s  == IF ~has(c1, "analysis")
                   THEN set_response(c1, r.response, "sql")
                   ELSE Ok(c1)
             rows == IF r.sql_results.is_none THEN 0 ELSE r.sql_results.row_count
         IN  IF s.raised THEN s
             ELSE Ok(add_trace(s.ctx, "sql",
                     "Executed query, got " \o NatToStr(rows) \o " rows"))

\* variant: the Analysis handler is called whatever the context holds
AnalysisRequirementMet_Always(c) == TRUE

\* _execute_analysis_agent, the guard: the context holds a query result
AnalysisRequirementMet(c) == has(c, "sql_results")

\* variant: the analysis is stored but not made the response
_execute_analysis_agent_KeepsResponse(c, response) ==
    Ok(add_trace([c EXCEPT !.analysis = response], "analysis",
                 "Generated analysis (" \o NatToStr(Len(response)) \o " chars)"))

_execute_analysis_agent(c, response) ==
    LET s == set_response([c EXCEPT !.analysis = response], response, "analysis")
    IN  IF s.raised THEN s
        ELSE Ok(add_trace(s.ctx, "analysis",
                "Generated analysis (" \o NatToStr(Len(response)) \o " chars)"))

_execute_architecture_agent(c, analysis) ==
    LET c1 == [c EXCEPT !.architecture_analysis = analysis,
                        !.data_analyzed = TRUE]
        s  == set_response(c1, _format_architecture_response(analysis),
                           "architecture")
    IN  IF s.raised THEN s
        ELSE Ok(add_trace(s.ctx, "architecture",
                "Analyzed " \o NatToStr(analysis.total_tables) \o " tables"))

\* what a handler of the given type can return
HandlerReturns(agent_type) ==
    CASE agent_type = "generic" -> GenericReturns
      [] agent_type = "sql" -> SqlReturns
      [] agent_type = "analysis" -> AnalysisReturns
      [] agent_type = "architecture" -> ArchitectureReturns

\* _execute_agent after the handler returned v: the dispatch on the type
AfterHandler(c, agent_type, v) ==
    CASE agent_type = "generic" -> _execute_generic_agent(c, v)
      [] agent_type = "sql" -> _execute_sql_agent(c, v)
      [] agent_type = "analysis" -> _execute_analysis_agent(c, v)
      [] agent_type = "architecture" -> _execute_architecture_agent(c, v)

\* variant: a narrower except clause
Catches_TypeErrorOnly(e) == e.kind = "TypeError"

\* execute, "except Exception": the exceptions the clause catches
Catches(e) == e.kind \in {"Exception", "TypeError"}

\* execute, the except block: the trace entry it appends
OnStageException(c, agent_type, e) == add_trace(c, agent_type, "Error: " \o e.msg)

\* variant: the stage is attempted again
LoopAdvance_Retry(i) == i

\* execute, the for loop: the stage after stage i, reached normally
LoopAdvance(i) == i + 1

\* variant: the loop takes each stage off the list of the plan
AfterIteration_Consumes(reg, p) ==
    [n \in DOMAIN reg |->
        IF reg[n].name = p.name /\ Len(reg[n].agents) > 0
        THEN [reg[n] EXCEPT !.agents = Tail(@)]
        ELSE reg[n]]

\* execute, "for agent_type in plan.agents": the registry after an iteration
\* over the list of plan p, which is the list of the registered plan when p
\* was returned by get_plan; the iteration reads the list and leaves it
AfterIteration(reg, p) == reg

\* variant: an exception ends the loop over the n stages
AfterRaise_Abort(i, n) == n + 1

\* execute, the for loop: the stage after stage i of n when stage i raised
AfterRaise(i, n) == i + 1

\* ------------------------------------------------------------------------
\* Router (app/agents/router_agent.py): the pure parts
\* ------------------------------------------------------------------------

\* the text of the LLM's reply (response.choices[0].message.content)
ReplyContents ==
    { "generic", "data_query", "architecture_review", " Data_Query\n",
      "GENERIC", "full_analysis", "invalid_plan", "", "data query",
      "generic." }

\* what chat.completions.create produces: a reply with text, a reply with no
\* choice, a reply whose content is None, or an exception
LLMReply(outcome, content) == [outcome |-> outcome, content |-> content]

LLMReplies ==
    {LLMReply("content", t) : t \in ReplyContents}
        \cup {LLMReply("no_choices", None), LLMReply("null_content", None),
              LLMReply("raise", None)}

\* _classify_intent after the call: the plan name, or the exception
_classify_intent(reply) ==
    IF reply.outcome = "content"
    THEN [raised |-> FALSE, plan_name |-> StrLower(StrStrip(reply.content))]
    ELSE [raised |-> TRUE, plan_name |-> None]

\* variant: an unknown name is passed on as a plan of its own
UnknownPlanFallback_PassThrough(name) ==
    [raised |-> FALSE, plan |-> ExecutionPlan(name, <<>>, FALSE)]

\* route_to_plan, "except KeyError": the plan for an unknown name
UnknownPlanFallback(name) == get_plan("generic")

\* variant: the exception is raised again
RouteErrorFallback_Reraise ==
    [raised |-> TRUE, plan |-> ExecutionPlan("<Exception>", <<>>, FALSE)]

\* route_to_plan, "except Exception": what the call yields
RouteErrorFallback == get_plan("generic")

\* route_to_plan after the classification
route_to_plan(reply) ==
    LET c == _classify_intent(reply)
    IN  IF c.raised THEN RouteErrorFallback
        ELSE IF get_plan(c.plan_name).raised
             THEN UnknownPlanFallback(c.plan_name)
             ELSE get_plan(c.plan_name)

\* variant: a failed classification is tried a second time
AfterClassification_Retry(n, failed) ==
    IF failed /\ n < 2 THEN "route" ELSE "routed"

\* route_to_plan: where control goes once the classification has ended, given
\* the number of LLM calls made so far and whether the last one failed
AfterClassification(n, failed) == "routed"

\* ------------------------------------------------------------------------
\* State
\* ------------------------------------------------------------------------

VARIABLES
    pc,           \* where the request is: "idle", "classify", "routed",
                  \* "loop", "await", "done", "raised"
    agents,       \* PipelineExecutor.agents: the registered agent types
    plan,         \* the plan execute was called with
    context,      \* the ExecutionContext of the request
    idx,          \* position of the for loop in plan.agents
    running,      \* stages whose handler call is in progress
    handler_failed, \* the running SQL handler has recorded an error
    response,     \* the ChatResponse execute returned
    llm_calls,    \* chat.completions.create calls of the router
    llm_reply,    \* what the classification call produced
    plan_name,    \* what _classify_intent returned
    routed,       \* what route_to_plan returned
    calls,        \* per agent type, how often its handler was invoked
    attempted,    \* the stages _execute_agent was called for, in order
    caught,       \* the exceptions the except block of execute received
    skipped,      \* the stages skipped because no handler is registered
    recorded,     \* the errors handlers recorded with set_error
    returned,     \* what the handler calls that ended normally returned
    call,         \* the agent or runner method called on its own, with its
                  \* arguments
    result,       \* what that call returned
    requests,     \* the LLM and HTTP requests that call has issued
    registry,     \* plans.AVAILABLE_PLANS, the module-level dictionary
    tasks,        \* the execute calls in progress on one executor, one per
                  \* concurrent request: each with its plan, its context and
                  \* its position
    stats,        \* AIOrchestrator.stats
    http          \* the /chat request being served and what the caller gets

vars == <<pc, agents, plan, context, idx, running, handler_failed, response,
          llm_calls, llm_reply, plan_name, routed, calls, attempted, caught,
          skipped, recorded, returned, call, result, requests, registry,
          tasks, stats, http>>

routerVars == <<llm_calls, llm_reply, plan_name, routed>>

historyVars == <<calls, attempted, caught, skipped, recorded, returned>>

agentVars == <<call, result, requests>>

serverVars == <<tasks, stats, http>>

NoPlan == ExecutionPlan("<none>", <<>>, FALSE)

NoRoute == [raised |-> FALSE, plan |-> NoPlan]

\* everything of the request's pipeline but its position
pipelineVars == <<agents, plan, context, idx, running, handler_failed,
                  response, routerVars, historyVars>>

\* no agent method has been called on its own
NoCall == [op |-> "none"]

NoReturn == [op |-> "none"]

NoRequests == [llm |-> 0, http |-> 0]

\* no execute call is in progress
NoTasks == <<>>

\* no orchestrator has been constructed
NoStats == [constructed |-> FALSE]

\* no /chat request has been received
NoHttp == [state |-> "none"]

\* the plans execute is called with directly, as the unit tests do
TestPlans ==
    {ExecutionPlan("test", q, r) : q \in SeqsUpTo(AgentType, MaxStages),
                                   r \in BOOLEAN}

\* an executor has been constructed, and a context for one request
PipelineInit ==
    /\ pc = "idle"
    /\ agents \in AgentDicts
    /\ plan = NoPlan
    /\ context \in {ExecutionContext(k) : k \in ApiKeys}
    /\ idx = 0
    /\ running = {}
    /\ handler_failed = FALSE
    /\ response = NoResponse
    /\ llm_calls = 0
    /\ llm_reply = [outcome |-> "none", content |-> None]
    /\ plan_name = None
    /\ routed = NoRoute
    /\ calls = [a \in AgentType |-> 0]
    /\ attempted = <<>>
    /\ caught = <<>>
    /\ skipped = {}
    /\ recorded = <<>>
    /\ returned = <<>>
    /\ call = NoCall
    /\ result = NoReturn
    /\ requests = NoRequests
    /\ registry = AVAILABLE_PLANS

Init ==
    /\ PipelineInit
    /\ tasks = NoTasks
    /\ stats = NoStats
    /\ http = NoHttp

\* ------------------------------------------------------------------------
\* PipelineExecutor.execute
\* ------------------------------------------------------------------------

CurrentAgent == plan.agents[idx]

\* execute is entered: with the routed plan, or directly with a plan
execute(p) ==
    /\ \/ pc = "idle" /\ p \in TestPlans
       \/ pc = "routed" /\ ~routed.raised /\ p = routed.plan
    /\ plan' = p
    /\ IF MissingApiKey(p, context)
       THEN LET c == set_error(context, MissingKeyMessage, "pipeline_executor")
            IN  /\ context' = _build_context(c)
                /\ response' = _build_response(c)
                /\ pc' = "done"
                /\ idx' = idx
       ELSE /\ pc' = "loop"
            /\ idx' = 1
            /\ UNCHANGED <<context, response>>
    /\ UNCHANGED <<agents, running, handler_failed, routerVars, historyVars>>
    /\ UNCHANGED <<agentVars, registry, serverVars>>

\* _execute_agent: no handler is registered for the stage
StageUnavailable ==
    /\ pc = "loop" /\ idx <= Len(plan.agents)
    /\ CurrentAgent \notin agents
    /\ attempted' = Append(attempted, idx)
    /\ skipped' = skipped \cup {idx}
    /\ context' = AgentUnavailable(context, CurrentAgent)
    /\ idx' = LoopAdvance(idx)
    /\ UNCHANGED <<pc, agents, plan, running, handler_failed, response,
                   routerVars, calls, caught, recorded, returned>>
    /\ registry' = AfterIteration(registry, plan)
    /\ UNCHANGED <<agentVars, serverVars>>

\* _execute_analysis_agent: no query result in the context, return
AnalysisWithoutResults ==
    /\ pc = "loop" /\ idx <= Len(plan.agents)
    /\ CurrentAgent \in agents
    /\ CurrentAgent = "analysis" /\ ~AnalysisRequirementMet(context)
    /\ attempted' = Append(attempted, idx)
    /\ idx' = LoopAdvance(idx)
    /\ UNCHANGED <<pc, agents, plan, context, running, handler_failed, response,
                   routerVars, calls, caught, skipped, recorded, returned>>
    /\ registry' = AfterIteration(registry, plan)
    /\ UNCHANGED <<agentVars, serverVars>>

\* _execute_*_agent: the handler is called and awaited
StageInvoke ==
    /\ pc = "loop" /\ idx <= Len(plan.agents)
    /\ CurrentAgent \in agents
    /\ CurrentAgent = "analysis" => AnalysisRequirementMet(context)
    /\ attempted' = Append(attempted, idx)
    /\ calls' = [calls EXCEPT ![CurrentAgent] = @ + 1]
    /\ running' = running \cup {idx}
    /\ handler_failed' = FALSE
    /\ pc' = "await"
    /\ UNCHANGED <<agents, plan, context, idx, response, routerVars, caught,
                   skipped, recorded, returned>>
    /\ registry' = AfterIteration(registry, plan)
    /\ UNCHANGED <<agentVars, serverVars>>

\* the SQL handler records an error in the context before it returns None
SqlHandlerRecordsError(msg, query) ==
    /\ pc = "await" /\ CurrentAgent = "sql" /\ ~handler_failed
    /\ context' = LET c == set_error(context, msg, "sql")
                  IN  IF query = None THEN c ELSE [c EXCEPT !.sql_query = query]
    /\ handler_failed' = TRUE
    /\ recorded' = Append(recorded, [stage |-> idx, msg |-> msg])
    /\ UNCHANGED <<pc, agents, plan, idx, running, response, routerVars, calls,
                   attempted, caught, skipped, returned>>
    /\ UNCHANGED <<agentVars, registry, serverVars>>

\* the stage ended with exception e: the except block of execute
StageException(c, e) ==
    IF Catches(e)
    THEN /\ context' = OnStageException(c, CurrentAgent, e)
         /\ caught' = Append(caught, [stage |-> idx, agent |-> CurrentAgent,
                                      msg |-> e.msg])
         /\ idx' = AfterRaise(idx, Len(plan.agents))
         /\ pc' = "loop"
    ELSE /\ context' = c
         /\ pc' = "raised"
         /\ UNCHANGED <<idx, caught>>

\* the value a handler call of stage i returned: its text, and for the SQL
\* handler the query and the query result
Returned(i, agent_type, v) ==
    [ stage |-> i, agent |-> agent_type,
      is_none |-> IF agent_type = "sql" THEN v.is_none ELSE FALSE,
      response |-> CASE agent_type = "sql" -> v.response
                     [] agent_type = "architecture" ->
                            _format_architecture_response(v)
                     [] OTHER -> v,
      sql_query |-> IF agent_type = "sql" THEN v.sql_query ELSE None,
      sql_results |-> IF agent_type = "sql" THEN v.sql_results ELSE NoResults ]

\* the awaited handler returns v
HandlerReturn(v) ==
    /\ pc = "await"
    /\ v \in HandlerReturns(CurrentAgent)
    /\ handler_failed => v = SqlNone
    /\ running' = running \ {idx}
    /\ returned' = Append(returned, Returned(idx, CurrentAgent, v))
    /\ LET r == AfterHandler(context, CurrentAgent, v)
       IN  IF r.raised
           THEN StageException(r.ctx, r.exc)
           ELSE /\ context' = r.ctx
                /\ idx' = LoopAdvance(idx)
                /\ pc' = "loop"
                /\ UNCHANGED caught
    /\ UNCHANGED <<agents, plan, handler_failed, response, routerVars, calls,
                   attempted, skipped, recorded>>
    /\ UNCHANGED <<agentVars, registry, serverVars>>

\* the awaited handler raises e
HandlerRaise(e) ==
    /\ pc = "await"
    /\ ~handler_failed
    /\ running' = running \ {idx}
    /\ StageException(context, e)
    /\ UNCHANGED <<agents, plan, handler_failed, response, routerVars, calls,
                   attempted, skipped, recorded, returned>>
    /\ UNCHANGED <<agentVars, registry, serverVars>>

\* the loop is over: _build_response
Finish ==
    /\ pc = "loop" /\ idx > Len(plan.agents)
    /\ response' = _build_response(context)
    /\ context' = _build_context(context)
    /\ pc' = "done"
    /\ UNCHANGED <<agents, plan, idx, running, handler_failed, routerVars,
                   historyVars>>
    /\ UNCHANGED <<agentVars, registry, serverVars>>

\* ------------------------------------------------------------------------
\* RouterAgent.route_to_plan
\* ------------------------------------------------------------------------

\* route_to_plan is entered
RouteEnter ==
    /\ pc = "idle"
    /\ pc' = "route"
    /\ UNCHANGED <<agents, plan, context, idx, running, handler_failed,
                   response, routerVars, historyVars>>
    /\ UNCHANGED <<agentVars, registry, serverVars>>

\* _classify_intent issues the LLM call and awaits it
ClassifyCall ==
    /\ pc = "route"
    /\ llm_calls' = llm_calls + 1
    /\ pc' = "classify"
    /\ UNCHANGED <<agents, plan, context, idx, running, handler_failed,
                   response, llm_reply, plan_name, routed, historyVars>>
    /\ UNCHANGED <<agentVars, registry, serverVars>>

\* the LLM call ends with reply; route_to_plan returns
ClassifyResult(reply) ==
    /\ pc = "classify"
    /\ llm_reply' = reply
    /\ plan_name' = _classify_intent(reply).plan_name
    /\ routed' = route_to_plan(reply)
    /\ pc' = AfterClassification(llm_calls, _classify_intent(reply).raised)
    /\ UNCHANGED <<agents, plan, context, idx, running, handler_failed,
                   response, llm_calls, historyVars>>
    /\ UNCHANGED <<agentVars, registry, serverVars>>

\* ------------------------------------------------------------------------
\* AnalysisAgent.process_message
\* ------------------------------------------------------------------------

\* what the LLM answers the analysis prompt with
AnalysisReplies ==
    {LLMReply("content", t) : t \in {" Les ventes depassent 100.\n", " "}}
        \cup {LLMReply("no_choices", None), LLMReply("null_content", None),
              LLMReply("raise", None)}

\* process_message is called with the query result r
AnalysisProcessMessage(r) ==
    /\ pc = "idle"
    /\ call' = [op |-> "analysis", sql_results |-> r]
    /\ LET b == AnalysisBeforeLLM(r)
       IN  IF b.llm
           THEN /\ requests' = [requests EXCEPT !.llm = @ + 1]
                /\ pc' = "agent_llm"
                /\ UNCHANGED result
           ELSE /\ result' = [op |-> "analysis", text |-> b.text]
                /\ pc' = "returned"
                /\ UNCHANGED requests
    /\ UNCHANGED <<pipelineVars, registry, serverVars>>

\* the LLM call of _generate_analysis ends; process_message returns
AnalysisLLMReply(reply) ==
    /\ pc = "agent_llm" /\ call.op = "analysis"
    /\ result' = [op |-> "analysis", text |-> _generate_analysis(reply)]
    /\ pc' = "returned"
    /\ UNCHANGED <<call, requests, pipelineVars, registry, serverVars>>

\* ------------------------------------------------------------------------
\* GristSQLRunner.execute_sql
\* ------------------------------------------------------------------------

\* execute_sql is called with sql_query: the validation, then the request
execute_sql(sql_query) ==
    /\ pc = "idle"
    /\ call' = [op |-> "execute_sql", sql_query |-> sql_query]
    /\ LET v == validate_sql_query(sql_query)
       IN  IF ~v.is_valid
           THEN /\ result' = [op |-> "execute_sql",
                              value |-> FailedResult(v.message)]
                /\ pc' = "returned"
                /\ UNCHANGED requests
           ELSE /\ requests' = [requests EXCEPT !.http = @ + 1]
                /\ pc' = "agent_http"
                /\ UNCHANGED result
    /\ UNCHANGED <<pipelineVars, registry, serverVars>>

\* client.get ends with h; execute_sql returns
execute_sql_return(h) ==
    /\ pc = "agent_http" /\ call.op = "execute_sql"
    /\ result' = [op |-> "execute_sql", value |-> execute_sql_response(h)]
    /\ pc' = "returned"
    /\ UNCHANGED <<call, requests, pipelineVars, registry, serverVars>>

\* ------------------------------------------------------------------------
\* GenericAgent.process_message (app/agents/generic_agent.py)
\* ------------------------------------------------------------------------

_handle_sql_fallback(user_message, sql_error) ==
    "Je ne peux pas executer votre requete sur les donnees.\n\n"
        \o "**Probleme :** " \o sql_error \o "\n\n"
        \o "Vous pouvez essayer de :\n"
        \o "- Verifier vos permissions d'acces au document\n"
        \o "- Reformuler votre question differemment\n"
        \o "- Me poser une question generale sur Grist\n\n"
        \o "En attendant, je peux vous aider avec d'autres questions !"

_handle_architecture_fallback(user_message, architecture_error) ==
    "Je ne peux pas analyser la structure de vos donnees.\n\n"
        \o "**Probleme :** " \o architecture_error \o "\n\n"
        \o "Vous pouvez essayer de :\n"
        \o "- Verifier vos permissions d'acces\n"
        \o "- Reformuler votre question sur la structure des donnees\n"
        \o "- Me poser d'autres questions sur Grist\n\n"
        \o "Comment puis-je vous aider autrement ?"

_handle_generic_error_fallback(user_message, error) ==
    "Je rencontre une difficulte technique.\n\n"
        \o "**Probleme :** " \o error \o "\n\n"
        \o "Pouvez-vous :\n"
        \o "- Reformuler votre question\n"
        \o "- Essayer une approche differente\n"
        \o "- Me poser une autre question\n\n"
        \o "Je suis la pour vous aider avec Grist !"

\* variant: one apology for every stage
_handle_error_fallback_OneTemplate(c, user_message) ==
    _handle_generic_error_fallback(user_message, c.error)

_handle_error_fallback(c, user_message) ==
    IF c.agent_used = "sql" THEN _handle_sql_fallback(user_message, c.error)
    ELSE IF c.agent_used = "architecture"
    THEN _handle_architecture_fallback(user_message, c.error)
    ELSE _handle_generic_error_fallback(user_message, c.error)

\* any(word in text for word in words)
AnyIn(words, text) == \E w \in words : Contains(text, w)

_get_fallback_response(user_message) ==
    LET user_lower == StrLower(user_message)
    IN  IF AnyIn({"bonjour", "salut", "hello", "hey"}, user_lower)
        THEN "Bonjour ! Je suis votre assistant IA pour Grist. Comment puis-je vous aider aujourd'hui ?"
        ELSE IF AnyIn({"aide", "help", "comment"}, user_lower)
        THEN "Je peux vous aider a analyser vos donnees Grist ! "
                \o "Posez-moi des questions sur vos donnees ou demandez-moi de generer des analyses. "
                \o "Par exemple : 'Montre-moi les tendances de ventes' ou 'Combien d'utilisateurs avons-nous ?'"
        ELSE IF AnyIn({"quoi", "what", "que"}, user_lower)
        THEN "Je suis un assistant IA integre a votre document Grist. "
                \o "Je peux analyser vos donnees, generer des requetes SQL, et repondre a vos questions generales. "
                \o "Que souhaitez-vous savoir sur vos donnees ?"
        ELSE "Desole, je rencontre une difficulte technique temporaire. "
                \o "Pouvez-vous reformuler votre question ? Je suis la pour vous aider avec vos donnees Grist !"

\* variant: the error of the context is not looked at
GenericSeesError_Never(c) == FALSE

\* process_message, "if context.error"
GenericSeesError(c) == Truthy(c.error)

\* _generate_generic_response after the call, with the except block of
\* process_message
_generate_generic_response(reply, user_message) ==
    IF reply.outcome = "content"
    THEN StrStrip(reply.content)
    ELSE _get_fallback_response(user_message)

\* the stages that record an error, and the errors they record
ErrorStages == {"sql", "architecture", "pipeline_executor"}

StageErrors == {"Permission denied"}

UserMessages == {"Bonjour", "Aide-moi", "Que fais-tu ?", "Montre les ventes"}

\* what the LLM answers the persona conversation with
GenericReplies ==
    {LLMReply("content", t) : t \in {" Bonjour, je suis votre assistant. ", ""}}
        \cup {LLMReply("no_choices", None), LLMReply("null_content", None),
              LLMReply("raise", None)}

\* process_message is called with a context: a fresh one (recorder = "none"),
\* or one in which the stage recorder has recorded the error e
GenericProcessMessage(recorder, e, user_message) ==
    /\ pc = "idle"
    /\ LET c == IF recorder = "none" THEN ExecutionContext("key")
                ELSE set_error(ExecutionContext("key"), e, recorder)
       IN  /\ call' = [op |-> "generic", context |-> c, recorder |-> recorder,
                       user_message |-> user_message]
           /\ IF GenericSeesError(c)
              THEN /\ result' = [op |-> "generic",
                                 text |-> _handle_error_fallback(c, user_message)]
                   /\ pc' = "returned"
                   /\ UNCHANGED requests
              ELSE /\ requests' = [requests EXCEPT !.llm = @ + 1]
                   /\ pc' = "agent_llm"
                   /\ UNCHANGED result
    /\ UNCHANGED <<pipelineVars, registry, serverVars>>

\* the LLM call of _generate_generic_response ends; process_message returns
GenericLLMReply(reply) ==
    /\ pc = "agent_llm" /\ call.op = "generic"
    /\ result' = [op |-> "generic",
                  text |-> _generate_generic_response(reply, call.user_message)]
    /\ pc' = "returned"
    /\ UNCHANGED <<call, requests, pipelineVars, registry, serverVars>>

\* ------------------------------------------------------------------------
\* SQLAgent.process_message (app/agents/sql_agent.py)
\* ------------------------------------------------------------------------

\* the first position at or after k where sub starts in text, 0 if none
FindFrom(text, sub, k) ==
    LET hits == {j \in k..(Len(text) - Len(sub) + 1) :
                    SubSeq(text, j, j + Len(sub) - 1) = sub}
    IN  IF hits = {} THEN 0 ELSE CHOOSE j \in hits : \A i \in hits : j <= i

\* _extract_sql_from_response, the pattern (SELECT\s+.*?)(?:\n\n|\Z) with
\* IGNORECASE: the text from the first SELECT that a blank follows up to the
\* next empty line, stripped; None without a match.  (The fenced-block
\* pattern tried first needs a backquote, which no reply of the model holds.)
_extract_sql_from_response(ai_response) ==
    LET upper == StrUpper(ai_response)
        starts == {k \in 1..(Len(upper) - 6) :
                      /\ SubSeq(upper, k, k + 5) = "SELECT"
                      /\ IsSpace(CharAt(upper, k + 6))}
    IN  IF starts = {} THEN None
        ELSE LET k == CHOOSE j \in starts : \A i \in starts : j <= i
                 e == FindFrom(ai_response, "\n\n", k + 7)
             IN  StrStrip(SubSeq(ai_response, k,
                                 IF e = 0 THEN Len(ai_response) ELSE e - 1))

\* _generate_sql_query after the LLM call: the query, or None
_generate_sql_query(reply) ==
    IF reply.outcome = "content"
    THEN LET q == _extract_sql_from_response(StrStrip(reply.content))
         IN  IF Truthy(q) THEN q ELSE None
    ELSE None

NoSchemasResponse ==
    "Desole, je ne peux pas acceder aux schemas de donnees de ce document. "
        \o "Verifiez que le document existe et que vous avez les permissions appropriees."

NoQueryResponse ==
    "Je n'ai pas pu generer une requete SQL appropriee pour votre question. "
        \o "Pouvez-vous la reformuler ou etre plus specifique ?"

\* what the LLM answers the SQL prompt with
SqlReplies ==
    {LLMReply("content", t) :
        t \in {"SELECT 1",
               "Voici la requete :\nselect a from t\n\nExplication : la colonne a",
               "Je ne peux pas repondre.", ""}}
        \cup {LLMReply("no_choices", None), LLMReply("null_content", None),
              LLMReply("raise", None)}

\* the numbers of tables get_all_schemas finds; it finds none as well when
\* the document API fails (schema_fetcher.py catches the failure)
SchemaCounts == {0, 1, 2}

\* process_message is called; get_all_schemas yields schemas for tables
\* tables, the samples are fetched and the LLM is asked for a query
SqlProcessMessage(tables) ==
    /\ pc = "idle"
    /\ call' = [op |-> "sql", tables |-> tables]
    /\ IF tables = 0
       THEN /\ result' = [op |-> "sql", raised |-> FALSE,
                          exc |-> Exc("", ""),
                          value |-> SqlTuple(NoSchemasResponse, None, NoResults)]
            /\ pc' = "returned"
            /\ UNCHANGED requests
       ELSE /\ requests' = [requests EXCEPT !.llm = @ + 1]
            /\ pc' = "agent_llm"
            /\ UNCHANGED result
    /\ UNCHANGED <<pipelineVars, registry, serverVars>>

\* the name context is bound nowhere in process_message or its module: the
\* statement that uses it raises NameError, and so does the except block
\* that catches this one
ContextLookup == Exc("NameError", "name 'context' is not defined")

\* _generate_sql_query returns.  Without a query process_message returns its
\* tuple; with a query it goes on to "self.sql_runner.execute_sql(
\* context.document_id, ...)", whose arguments cannot be evaluated
SqlLLMReply(reply) ==
    /\ pc = "agent_llm" /\ call.op = "sql"
    /\ LET q == _generate_sql_query(reply)
       IN  IF q = None
           THEN /\ result' = [op |-> "sql", raised |-> FALSE,
                              exc |-> Exc("", ""),
                              value |-> SqlTuple(NoQueryResponse, None, NoResults)]
                /\ pc' = "returned"
           ELSE /\ result' = [op |-> "sql", raised |-> TRUE,
                              exc |-> ContextLookup,
                              value |-> SqlTuple(None, q, NoResults)]
                /\ pc' = "escaped"
    /\ UNCHANGED <<call, requests, pipelineVars, registry, serverVars>>

\* ------------------------------------------------------------------------
\* Concurrent requests: several execute calls in progress on one executor
\* ------------------------------------------------------------------------

\* the two requests whose execute calls are interleaved
TaskIds == {1, 2}

\* what an awaited handler call ends with: it returns v, it raises v, or (the
\* SQL handler) it records the error v in the context and returns None
HandlerEvent(kind, v) == [kind |-> kind, v |-> v]

\* _execute_agent from the moment the handler call ends with event e
AfterHandlerEvent(c, agent_type, e) ==
    CASE e.kind = "return" -> AfterHandler(c, agent_type, e.v)
      [] e.kind = "raise" -> Raise(c, e.v)
      [] e.kind = "failed" -> AfterHandler(set_error(c, e.v, "sql"), agent_type, SqlNone)

\* an execute call: its arguments (plan, and the context in ctx), the local
\* position of its for loop, what it returned, the events its handler calls
\* ended with, and whether it ran while another call was suspended
Task(p, c, task_pc, i, resp) ==
    [plan |-> p, key |-> c.grist_api_key, ctx |-> c, pc |-> task_pc, idx |-> i,
     response |-> resp, events |-> <<>>, overlapped |-> FALSE]

\* call k has run up to its next suspension point and is now t
Stepped(ts, k, t) ==
    [ts EXCEPT ![k] =
        [t EXCEPT !.overlapped =
            @ \/ \E j \in DOMAIN ts \ {k} : ts[j].pc = "await"]]

\* variant: the executor keeps the context of the first call for all calls
ContextOf_Shared(ts, k) == ts[1].ctx

\* the context call k works on: the argument it was called with
ContextOf(ts, k) == ts[k].ctx

\* execute is called for a new request, with a registered plan and a context
\* constructed for that request
TaskExecute(p, key) ==
    /\ Len(tasks) < Cardinality(TaskIds)
    /\ LET c == ExecutionContext(key)
       IN  tasks' = Append(tasks,
              IF MissingApiKey(p, c)
              THEN LET c1 == set_error(c, MissingKeyMessage, "pipeline_executor")
                   IN  Task(p, _build_context(c1), "done", 0, _build_response(c1))
              ELSE Task(p, c, "loop", 1, NoResponse))
    /\ UNCHANGED <<pc, pipelineVars, agentVars, registry, stats, http>>

\* call k reaches its next stage: it skips a stage without handler, returns
\* from _execute_analysis_agent without query result, or calls the handler
\* and is suspended
TaskStage(k) ==
    /\ k \in DOMAIN tasks
    /\ tasks[k].pc = "loop" /\ tasks[k].idx <= Len(tasks[k].plan.agents)
    /\ LET t == tasks[k]
           a == t.plan.agents[t.idx]
           c == ContextOf(tasks, k)
       IN  tasks' = Stepped(tasks, k,
              IF a \notin agents
              THEN [t EXCEPT !.ctx = AgentUnavailable(c, a),
                             !.idx = LoopAdvance(t.idx)]
              ELSE IF a = "analysis" /\ ~AnalysisRequirementMet(c)
              THEN [t EXCEPT !.idx = LoopAdvance(t.idx)]
              ELSE [t EXCEPT !.pc = "await"])
    /\ UNCHANGED <<pc, pipelineVars, agentVars, registry, stats, http>>

\* the stage call k is suspended in, "generic" when it is not suspended
TaskAgent(k) ==
    IF k \in DOMAIN tasks /\ tasks[k].pc = "await"
    THEN tasks[k].plan.agents[tasks[k].idx]
    ELSE "generic"

\* the handler call of call k ends with event e and the call goes on to the
\* next stage
TaskResume(k, e) ==
    /\ k \in DOMAIN tasks
    /\ tasks[k].pc = "await"
    /\ LET t == tasks[k]
           a == t.plan.agents[t.idx]
           r == AfterHandlerEvent(ContextOf(tasks, k), a, e)
       IN  /\ tasks' = Stepped(tasks, k,
                 IF ~r.raised
                 THEN [t EXCEPT !.ctx = r.ctx, !.idx = LoopAdvance(t.idx),
                                !.pc = "loop", !.events = Append(@, e)]
                 ELSE IF Catches(r.exc)
                 THEN [t EXCEPT !.ctx = OnStageException(r.ctx, a, r.exc),
                                !.idx = AfterRaise(t.idx, Len(t.plan.agents)),
                                !.pc = "loop", !.events = Append(@, e)]
                 ELSE [t EXCEPT !.ctx = r.ctx, !.pc = "raised",
                                !.events = Append(@, e)])
    /\ UNCHANGED <<pc, pipelineVars, agentVars, registry, stats, http>>

\* the handler awaited by call k returns v
TaskHandlerReturn(k, v) ==
    /\ v \in HandlerReturns(TaskAgent(k))
    /\ TaskResume(k, HandlerEvent("return", v))

\* the handler awaited by call k raises e
TaskHandlerRaise(k, e) == TaskResume(k, HandlerEvent("raise", e))

\* the SQL handler awaited by call k records the error msg and returns None
TaskSqlHandlerFails(k, msg) ==
    /\ TaskAgent(k) = "sql"
    /\ TaskResume(k, HandlerEvent("failed", msg))

\* the loop of call k is over: _build_response
TaskFinish(k) ==
    /\ k \in DOMAIN tasks
    /\ tasks[k].pc = "loop" /\ tasks[k].idx > Len(tasks[k].plan.agents)
    /\ LET c == ContextOf(tasks, k)
       IN  tasks' = Stepped(tasks, k,
              [tasks[k] EXCEPT !.response = _build_response(c),
                               !.ctx = _build_context(c),
                               !.pc = "done"])
    /\ UNCHANGED <<pc, pipelineVars, agentVars, registry, stats, http>>

\* execute run on its own: the context after the stages from position i on,
\* the handler calls ending with the events ev in order
RECURSIVE RunStages(_, _, _, _, _)
RunStages(c, p, ags, i, ev) ==
    IF i > Len(p.agents) THEN c
    ELSE LET a == p.agents[i]
         IN  IF a \notin ags
             THEN RunStages(AgentUnavailable(c, a), p, ags, i + 1, ev)
             ELSE IF a = "analysis" /\ ~AnalysisRequirementMet(c)
             THEN RunStages(c, p, ags, i + 1, ev)
             ELSE IF ev = <<>> THEN c
             ELSE LET r == AfterHandlerEvent(c, a, Head(ev))
                  IN  IF ~r.raised
                      THEN RunStages(r.ctx, p, ags, i + 1, Tail(ev))
                      ELSE RunStages(OnStageException(r.ctx, a, r.exc), p, ags,
                                     i + 1, Tail(ev))

\* execute(p, ExecutionContext(key)) run on its own with the events ev: the
\* context it leaves and the response it returns
RunAlone(p, key, ags, ev) ==
    LET c == ExecutionContext(key)
    IN  IF MissingApiKey(p, c)
        THEN LET c1 == set_error(c, MissingKeyMessage, "pipeline_executor")
             IN  [ctx |-> _build_context(c1), response |-> _build_response(c1)]
        ELSE LET c2 == RunStages(c, p, ags, 1, ev)
             IN  [ctx |-> _build_context(c2), response |-> _build_response(c2)]

\* the executors the concurrent requests run on: all four handlers, or the
\* two of a deployment without document analysis
ConcurrentAgentDicts == {AgentType, {"generic", "sql"}}

ConcurrentInit ==
    /\ Init
    /\ agents \in ConcurrentAgentDicts
    /\ context = ExecutionContext(None)

ConcurrentNext ==
    \/ \E n \in DOMAIN registry, key \in ApiKeys : TaskExecute(registry[n], key)
    \/ \E k \in TaskIds : TaskStage(k)
    \/ \E k \in TaskIds : \E v \in HandlerReturns(TaskAgent(k)) :
            TaskHandlerReturn(k, v)
    \/ \E k \in TaskIds, e \in HandlerExceptions : TaskHandlerRaise(k, e)
    \/ \E k \in TaskIds, msg \in SqlErrors : TaskSqlHandlerFails(k, msg)
    \/ \E k \in TaskIds : TaskFinish(k)

ConcurrentSpec == ConcurrentInit /\ [][ConcurrentNext]_vars

\* ------------------------------------------------------------------------
\* The /chat endpoint and AIOrchestrator (app/main.py, app/orchestrator.py)
\* ------------------------------------------------------------------------

\* the /chat requests served one after the other
MaxRequests == 2

\* the messages of a request body
MaxMessages == 2

\* the order of the members of the enumeration AgentType
AgentTypeOrder == <<"generic", "sql", "analysis", "architecture">>

\* AIOrchestrator.__init__: the statistics of a new orchestrator
AIOrchestratorStats ==
    [constructed |-> TRUE, total_requests |-> 0,
     agent_usage |-> [a \in {AgentTypeOrder[i] : i \in DOMAIN AgentTypeOrder} |-> 0]]

\* max(d, key=d.get): the first key, in the order of the dictionary, that
\* holds the greatest value
MaxKey(d, order) ==
    LET best == CHOOSE i \in DOMAIN order :
                    /\ \A j \in DOMAIN order : d[order[j]] <= d[order[i]]
                    /\ \A j \in 1..(i - 1) : d[order[j]] < d[order[i]]
    IN  order[best]

\* AIOrchestrator.get_stats: the dictionary it returns
get_stats(st) ==
    [total_requests |-> st.total_requests,
     agent_usage |-> st.agent_usage,
     most_used_agent |-> MaxKey(st.agent_usage, AgentTypeOrder)]

\* str() of the AttributeError a lookup of name on an object of class cls raises
AttributeErrorText(cls, name) ==
    "'" \o cls \o "' object has no attribute '" \o name \o "'"

\* one element of "messages": role is None when the key is absent, and
\* content is None when it is null
MessageDict(role, content) == [role |-> role, content |-> content]

MessageRole == {"user", "assistant", "system"}

MessageDicts ==
    {MessageDict(r, c) : r \in MessageRole \cup {"bot", None},
                         c \in {"Combien de ventes ?"}}
        \cup {MessageDict("user", None)}

\* what the caller posts: text that is no JSON, a JSON value that is no
\* object, or an object; a key that is absent is None
RawBody(json, documentId, messages, has_messages, webhookUrl) ==
    [json |-> json, documentId |-> documentId, messages |-> messages,
     has_messages |-> has_messages, webhookUrl |-> webhookUrl]

RawBodies ==
    {RawBody("invalid", None, <<>>, FALSE, None),
     RawBody("list", None, <<>>, FALSE, None)}
        \cup {RawBody("dict", d, m, TRUE, w) :
                d \in {None, "", "doc1"}, m \in SeqsUpTo(MessageDicts, MaxMessages),
                w \in {None, "http://hook"}}
        \cup {RawBody("dict", "doc1", <<>>, FALSE, "http://hook")}

\* GristRequest(**grist_request_data) validates: the body is an object with
\* a non-empty documentId, a list messages and a non-empty webhookUrl
ValidGristRequest(body) ==
    /\ body.json = "dict"
    /\ Truthy(body.documentId)
    /\ body.has_messages
    /\ Truthy(body.webhookUrl)

\* Message(role=msg_dict.get("role", "user"), content=msg_dict.get("content", ""))
\* validates: the role is a MessageRole and the content a string
ValidMessage(m) ==
    /\ (IF m.role = None THEN "user" ELSE m.role) \in MessageRole
    /\ m.content # None

Message(m) ==
    [role |-> IF m.role = None THEN "user" ELSE m.role, content |-> m.content]

\* the first line of str() of the ValidationError pydantic raises for Message
MessageValidationError == "1 validation error for Message"

\* ProcessedRequest.from_grist_request: the converted messages, or the
\* ValueError raised for the first message that does not validate
from_grist_request(body, grist_api_key) ==
    LET bad == {i \in DOMAIN body.messages : ~ValidMessage(body.messages[i])}
    IN  IF bad # {}
        THEN LET i == CHOOSE j \in bad : \A k \in bad : j <= k
             IN  [raised |-> TRUE,
                  exc |-> Exc("ValueError",
                              "Erreur conversion message " \o NatToStr(i - 1)
                                  \o ": " \o MessageValidationError),
                  messages |-> <<>>, grist_api_key |-> grist_api_key]
        ELSE [raised |-> FALSE, exc |-> Exc("", ""),
              messages |-> [i \in DOMAIN body.messages |-> Message(body.messages[i])],
              grist_api_key |-> grist_api_key]

\* ConversationHistory.get_last_user_message: the position of the last
\* message of the user, 0 if there is none
get_last_user_message(messages) ==
    LET users == {i \in DOMAIN messages : messages[i].role = "user"}
    IN  IF users = {} THEN 0 ELSE CHOOSE i \in users : \A j \in users : j <= i

\* the payload of a /chat answer: a ChatResponse, or the detail of an
\* HTTPException
Payload(resp, agent_used, sql_query, data_analyzed, error) ==
    [response |-> resp, agent_used |-> agent_used, sql_query |-> sql_query,
     data_analyzed |-> data_analyzed, error |-> error]

TechnicalError(msg, agent_used) ==
    Payload("Desole, j'ai rencontre une erreur technique : " \o msg, agent_used,
            None, FALSE, msg)

NoPayload == Payload(None, None, None, FALSE, None)

\* no ProcessedRequest has been built
NoProcessedRequest ==
    [raised |-> FALSE, exc |-> Exc("", ""), messages |-> <<>>,
     grist_api_key |-> None]

\* the server between two requests: received counts the /chat requests,
\* routing the requests for which the orchestrator went on to routing
Served(h, status, payload, failure) ==
    [state |-> "answered", received |-> h.received, routing |-> h.routing,
     body |-> h.body, request |-> h.request, status |-> status,
     payload |-> payload, failure |-> failure]

\* the except clauses of chat_endpoint: an HTTPException is raised again, any
\* other exception becomes a ChatResponse
EndpointExcept_Reraise(e) ==
    [status |-> 500, payload |-> NoPayload]

EndpointExcept(e) ==
    IF e.kind = "HTTPException"
    THEN [status |-> e.status, payload |-> NoPayload]
    ELSE [status |-> 200, payload |-> TechnicalError(e.msg, "error")]

HTTPException(status, detail) ==
    [kind |-> "HTTPException", status |-> status, msg |-> detail]

\* chat_endpoint up to the call of the orchestrator: the body is parsed, the
\* GristRequest is built and converted
ChatRequest(body, key) ==
    /\ stats.constructed
    /\ http.state \in {"none", "answered"}
    /\ IF http.state = "none" THEN TRUE ELSE http.received < MaxRequests
    /\ LET h == [received |-> IF http.state = "none" THEN 1 ELSE http.received + 1,
                 routing |-> IF http.state = "none" THEN 0 ELSE http.routing,
                 body |-> body,
                 request |-> IF ValidGristRequest(body)
                             THEN from_grist_request(body, key)
                             ELSE NoProcessedRequest]
       IN  http' =
             IF body.json = "invalid"
             THEN LET x == EndpointExcept(HTTPException(400, "JSON invalide"))
                  IN  Served(h, x.status, x.payload, "json")
             ELSE IF ~ValidGristRequest(body)
             THEN LET x == EndpointExcept(
                               HTTPException(422, "Erreur construction requete"))
                  IN  Served(h, x.status, x.payload, "structure")
             ELSE IF h.request.raised
             THEN LET x == EndpointExcept(
                               [kind |-> h.request.exc.kind, status |-> 0,
                                msg |-> h.request.exc.msg])
                  IN  Served(h, x.status, x.payload, "conversion")
             ELSE [state |-> "orchestrator", received |-> h.received,
                   routing |-> h.routing, body |-> body, request |-> h.request,
                   status |-> 0, payload |-> NoPayload, failure |-> "none"]
    /\ UNCHANGED <<pc, pipelineVars, agentVars, registry, tasks, stats>>

\* the except clause of process_chat_request
OrchestratorExcept_Reraise(e) ==
    [raised |-> TRUE, exc |-> e, payload |-> NoPayload]

OrchestratorExcept(e) ==
    [raised |-> FALSE, exc |-> e, payload |-> TechnicalError(e.msg, "generic")]

\* AIOrchestrator.process_chat_request, and chat_endpoint from its return.
\* The request is counted; without a message of the user the orchestrator
\* answers so; otherwise it looks up self.router_agent.route_message, which
\* RouterAgent does not define
ProcessChatRequest ==
    /\ http.state = "orchestrator"
    /\ stats' = [stats EXCEPT !.total_requests = @ + 1]
    /\ LET last == get_last_user_message(http.request.messages)
           r == IF last = 0
                THEN [raised |-> FALSE, exc |-> Exc("", ""),
                      payload |-> Payload(
                          "Aucun message utilisateur trouve dans la conversation.",
                          "generic", None, FALSE, "No user message found")]
                ELSE OrchestratorExcept(
                         Exc("AttributeError",
                             AttributeErrorText("RouterAgent", "route_message")))
           x == IF r.raised
                THEN EndpointExcept([kind |-> r.exc.kind, status |-> 0,
                                     msg |-> r.exc.msg])
                ELSE [status |-> 200, payload |-> r.payload]
       IN  http' = Served([http EXCEPT !.routing = IF last = 0 THEN @ ELSE @ + 1],
                          x.status, x.payload,
                          IF last = 0 THEN "no_user_message" ELSE "routing")
    /\ UNCHANGED <<pc, pipelineVars, agentVars, registry, tasks>>

\* the orchestrator of the application has been constructed (lifespan)
ServerInit ==
    /\ PipelineInit
    /\ agents = AgentType
    /\ context = ExecutionContext(None)
    /\ tasks = NoTasks
    /\ stats = AIOrchestratorStats
    /\ http = NoHttp

ServerNext ==
    \/ \E body \in RawBodies, key \in {None, "key"} : ChatRequest(body, key)
    \/ ProcessChatRequest

ServerSpec == ServerInit /\ [][ServerNext]_vars

\* ------------------------------------------------------------------------
\* Specification
\* ------------------------------------------------------------------------

Next ==
    \/ RouteEnter
    \/ ClassifyCall
    \/ \E reply \in LLMReplies : ClassifyResult(reply)
    \/ \E p \in TestPlans \cup {routed.plan} : execute(p)
    \/ StageUnavailable
    \/ AnalysisWithoutResults
    \/ StageInvoke
    \/ \E msg \in SqlErrors, query \in {None, "SELECT 1"} :
            SqlHandlerRecordsError(msg, query)
    \/ \E v \in HandlerReturns(IF pc = "await" THEN CurrentAgent ELSE "generic") :
            HandlerReturn(v)
    \/ \E e \in HandlerExceptions : HandlerRaise(e)
    \/ Finish
    \/ \E r \in AnalysisInputs : AnalysisProcessMessage(r)
    \/ \E reply \in AnalysisReplies : AnalysisLLMReply(reply)
    \/ \E q \in SqlQueries : execute_sql(q)
    \/ \E h \in HttpOutcomes : execute_sql_return(h)
    \/ \E recorder \in ErrorStages \cup {"none"}, e \in StageErrors,
          m \in UserMessages : GenericProcessMessage(recorder, e, m)
    \/ \E reply \in GenericReplies : GenericLLMReply(reply)
    \/ \E tables \in SchemaCounts : SqlProcessMessage(tables)
    \/ \E reply \in SqlReplies : SqlLLMReply(reply)

Spec == Init /\ [][Next]_vars

\* the request's task is scheduled until it ends, and every awaited call ends
FairSpec == Spec /\ WF_vars(Next)

\* ------------------------------------------------------------------------
\* HistoryConfig.filter_history
\* ------------------------------------------------------------------------

\* longest conversation history of the model
MaxHistory == 3

\* the histories: every sequence of roles, each message with its own content
RECURSIVE RoleSeqs(_)
RoleSeqs(n) ==
    IF n = 0 THEN {<<>>}
    ELSE RoleSeqs(n - 1)
            \cup {Append(q, r) : q \in {x \in RoleSeqs(n - 1) : Len(x) = n - 1},
                                 r \in MessageRole}

ConversationHistory(roles) ==
    [i \in DOMAIN roles |-> MessageDict(roles[i], "m" \o NatToStr(i))]

ConversationHistories == {ConversationHistory(q) : q \in RoleSeqs(MaxHistory)}

HistoryConfig(enabled, max_messages, include_system_messages, exclude_current) ==
    [enabled |-> enabled, max_messages |-> max_messages,
     include_system_messages |-> include_system_messages,
     exclude_current |-> exclude_current]

HistoryConfigs ==
    {HistoryConfig(e, n, s, x) : e \in BOOLEAN, n \in 0..MaxHistory,
                                 s \in BOOLEAN, x \in BOOLEAN}

\* the exclude_last argument: None, True or False
ExcludeLastArgs == {"<None>", "True", "False"}

\* Python's seq[start:] for an integer start
SliceFrom(seq, start) ==
    LET n == Len(seq)
        b == IF start < 0
             THEN (IF start + n < 0 THEN 0 ELSE start + n)
             ELSE (IF start > n THEN n ELSE start)
    IN  SubSeq(seq, b + 1, n)

\* Python's seq[:-1]
DropLast(seq) == SubSeq(seq, 1, Len(seq) - 1)

IsNotSystem(m) == m.role # "system"

filter_history(cfg, messages, exclude_last) ==
    IF ~cfg.enabled THEN <<>>
    ELSE LET all1 == IF ~cfg.include_system_messages
                     THEN SelectSeq(messages, IsNotSystem)
                     ELSE messages
             should_exclude_last ==
                 IF exclude_last # "<None>" THEN exclude_last = "True"
                 ELSE cfg.exclude_current
             all2 == IF should_exclude_last /\ Len(all1) > 0
                     THEN DropLast(all1) ELSE all1
         IN  IF cfg.max_messages > 0
             THEN SliceFrom(all2, 0 - cfg.max_messages)
             ELSE all2

\* filter_history is called and returns
FilterHistory(cfg, messages, exclude_last) ==
    /\ pc = "idle"
    /\ call' = [op |-> "filter_history", cfg |-> cfg, messages |-> messages,
                exclude_last |-> exclude_last]
    /\ result' = [op |-> "filter_history",
                  messages |-> filter_history(cfg, messages, exclude_last)]
    /\ pc' = "returned"
    /\ UNCHANGED <<requests, pipelineVars, registry, serverVars>>

HistoryInit ==
    /\ Init
    /\ agents = AgentType
    /\ context = ExecutionContext(None)

HistoryNext ==
    \E cfg \in HistoryConfigs, messages \in ConversationHistories,
       exclude_last \in ExcludeLastArgs :
        FilterHistory(cfg, messages, exclude_last)

HistorySpec == HistoryInit /\ [][HistoryNext]_vars

\* ------------------------------------------------------------------------
\* AnalysisAgent._format_data_for_analysis on result sets beyond max_rows
\* ------------------------------------------------------------------------

\* most rows of a result set handed to _format_data_for_analysis on its own
MaxFormatRows == 22

\* the rows a result set is made of: short cells, or a long name and a
\* missing amount
ShortRow == Row(TRUE, "Alice", "150", "{'name': 'Alice', 'amount': 150}")

LongRow ==
    Row(TRUE, "Compagnie Generale des Eaux de Paris", "",
        "{'name': 'Compagnie Generale des Eaux de Paris'}")

RowPatterns == {"short", "long", "mixed"}

\* a result set of n rows
ResultSet(n, pattern, columns) ==
    QueryResult(TRUE,
                [i \in 1..n |->
                    CASE pattern = "short" -> ShortRow
                      [] pattern = "long" -> LongRow
                      [] OTHER -> IF i % 2 = 1 THEN ShortRow ELSE LongRow],
                columns, None, n)

FormatInputs ==
    {ResultSet(n, p, c) : n \in 1..MaxFormatRows, p \in RowPatterns,
                          c \in {<<"name">>, Columns}}

\* _format_data_for_analysis is called with r and returns or raises
FormatData(r) ==
    /\ pc = "idle"
    /\ call' = [op |-> "format_data", sql_results |-> r]
    /\ LET f == _format_data_for_analysis(r)
       IN  result' = [op |-> "format_data", raised |-> f.raised, text |-> f.text]
    /\ pc' = "returned"
    /\ UNCHANGED <<requests, pipelineVars, registry, serverVars>>

FormatInit ==
    /\ Init
    /\ agents = AgentType
    /\ context = ExecutionContext(None)

FormatNext == \E r \in FormatInputs : FormatData(r)

FormatSpec == FormatInit /\ [][FormatNext]_vars

TypeOK ==
    /\ pc \in {"idle", "route", "classify", "routed", "loop", "await", "done",
               "raised", "agent_llm", "agent_http", "returned", "escaped"}
    /\ agents \subseteq AgentType
    /\ idx \in 0..(Len(plan.agents) + 1)
    /\ llm_calls \in 0..1

\* ------------------------------------------------------------------------
\* Properties
\* ------------------------------------------------------------------------

\* number of positions of seq that hold x
CountIn(seq, x) == Cardinality({k \in DOMAIN seq : seq[k] = x})

\* number of handler invocations of the call
TotalCalls == calls["generic"] + calls["sql"] + calls["analysis"]
                + calls["architecture"]

\* execute has been entered
Executing == plan # NoPlan

\* the trace entry the except block of execute writes
ErrorEntry(agent_type, msg) == agent_type \o ": Error: " \o msg

\* no text of the model is longer
MaxTextLen == 1200

\* the trace entries set_response writes for a non-empty text
TextSetEntries ==
    {a \o ": Set response (" \o NatToStr(n) \o " chars)" :
        a \in AgentType, n \in 1..MaxTextLen}

\* C1: when the plan requires the credential and the context has none (None
\* or empty), execute ends at once with the missing-credential error in the
\* response, and no stage is attempted and no handler invoked at any point.
C1_NoStageWithoutCredential ==
    (Executing /\ plan.requires_api_key /\ context.grist_api_key \in {None, ""})
        => /\ pc = "done"
           /\ response.error = MissingKeyMessage
           /\ attempted = <<>>
           /\ running = {}
           /\ \A a \in AgentType : calls[a] = 0

C1_Witness ==
    /\ pc = "done"
    /\ plan.requires_api_key
    /\ context.grist_api_key = ""
    /\ Len(plan.agents) > 0
    /\ plan.agents[1] \in agents
    /\ response.error = MissingKeyMessage

\* C2: an exception of stage i is caught by execute, leaves exactly one
\* trace entry for that stage describing the failure, and every later stage
\* i+1..n is still attempted.
C2_RaisingStageDoesNotAbort ==
    /\ pc # "raised"
    /\ \A k \in DOMAIN caught :
          LET e == caught[k]
          IN  /\ CountIn(context.execution_trace, ErrorEntry(e.agent, e.msg))
                   = Cardinality({j \in DOMAIN caught :
                                    /\ caught[j].agent = e.agent
                                    /\ caught[j].msg = e.msg})
              /\ e.agent = plan.agents[e.stage]
              /\ pc # "done" => idx > e.stage
              /\ pc = "done" =>
                    \A j \in (e.stage + 1)..Len(plan.agents) :
                        CountIn(attempted, j) = 1

C2_Witness ==
    /\ pc = "done"
    /\ Len(plan.agents) = 2
    /\ plan.agents[1] # plan.agents[2]
    /\ \E k \in DOMAIN caught : caught[k].stage = 1 /\ caught[k].msg = "Agent crashed"
    /\ calls[plan.agents[2]] = 1

\* C3: the stages are attempted one after the other in list order, each at
\* most once, and at most one handler call is in progress, that of the stage
\* attempted last.
C3_SequentialStages ==
    /\ \A k \in DOMAIN attempted : attempted[k] = k
    /\ Len(attempted) <= Len(plan.agents)
    /\ \A a \in AgentType : calls[a] <= CountIn(plan.agents, a)
    /\ Cardinality(running) <= 1
    /\ running # {} => /\ pc = "await"
                       /\ running = {attempted[Len(attempted)]}
    /\ pc = "await" => running = {idx}

C3_Witness ==
    /\ pc = "await"
    /\ idx = 2
    /\ running = {2}
    /\ TotalCalls = 2

\* C4: once execute is entered it ends: it returns the ChatResponse built
\* from the context, and no exception leaves it.
C4_ExecuteTerminates ==
    /\ Executing ~> (pc = "done" /\ response = ChatResponse(context))
    /\ [](pc # "raised")

C4_Witness ==
    /\ pc = "done"
    /\ response = ChatResponse(context)
    /\ caught # <<>>
    /\ skipped # {}
    /\ TotalCalls > 0

\* C5: the text of the returned response is never None or empty; when no
\* stage has set a non-empty text, it is the fixed default and agent_used is
\* "none".
C5_ResponseTextNeverEmpty ==
    pc = "done" =>
        /\ response.response # None
        /\ response.response # ""
        /\ (\A k \in DOMAIN context.execution_trace :
                context.execution_trace[k] \notin TextSetEntries)
              => /\ response.response = FallbackResponse
                 /\ response.agent_used = "none"

C5_Witness ==
    /\ pc = "done"
    /\ \E k \in DOMAIN context.execution_trace :
          context.execution_trace[k] = "generic: Set response (0 chars)"
    /\ \A k \in DOMAIN context.execution_trace :
          context.execution_trace[k] \notin TextSetEntries
    /\ response.response = FallbackResponse

\* C6: a stage with no registered handler changes nothing in the context and
\* invokes no handler, and the loop goes on with the next stage.
C6_UnregisteredStageIsNoOp ==
    [][(pc = "loop" /\ idx <= Len(plan.agents) /\ plan.agents[idx] \notin agents)
          => /\ context' = context
             /\ response' = response
             /\ calls' = calls
             /\ pc' = "loop"
             /\ idx' = idx + 1]_vars

C6_Witness ==
    /\ pc = "done"
    /\ Len(plan.agents) = 2
    /\ skipped = {1}
    /\ calls[plan.agents[2]] = 1
    /\ response.agent_used = plan.agents[2]

\* the names of the registered plans
RegisteredPlanNames == {"generic", "data_query", "architecture_review"}

\* replies that, however trimmed or lower-cased, name no registered plan
UnknownReplyContents ==
    {"full_analysis", "invalid_plan", "", "data query", "generic."}

\* route_to_plan has returned
Routed == llm_reply.outcome # "none" /\ pc # "route" /\ pc # "classify"

\* C7: route_to_plan returns one of the registered plans whatever the LLM
\* replied; a reply that names no registered plan yields the generic plan.
C7_RouteYieldsRegisteredPlan ==
    Routed =>
        /\ ~routed.raised
        /\ \E n \in DOMAIN AVAILABLE_PLANS : routed.plan = AVAILABLE_PLANS[n]
        /\ (llm_reply.outcome = "content" /\ plan_name \notin RegisteredPlanNames)
              => routed.plan = AVAILABLE_PLANS["generic"]
        /\ (llm_reply.outcome = "content" /\ llm_reply.content \in UnknownReplyContents)
              => routed.plan.name = "generic"
        /\ (llm_reply.outcome = "content" /\ plan_name \in RegisteredPlanNames)
              => routed.plan.name = plan_name

C7_Witness ==
    /\ pc = "routed"
    /\ llm_reply = LLMReply("content", "invalid_plan")
    /\ routed.plan.name = "generic"

\* C8: when the LLM call raises or its reply cannot be read, route_to_plan
\* returns the generic plan and raises nothing.
C8_RouteNeverFails ==
    (Routed /\ llm_reply.outcome \in {"raise", "no_choices", "null_content"})
        => /\ ~routed.raised
           /\ routed.plan = AVAILABLE_PLANS["generic"]

C8_Witness ==
    /\ pc = "routed"
    /\ llm_reply.outcome = "raise"
    /\ routed.plan.name = "generic"

\* C9: one invocation of route_to_plan makes at most one LLM call, also when
\* the call failed or named no plan.
C9_SingleClassificationCall ==
    /\ llm_calls <= 1
    /\ Routed => llm_calls = 1

C9_Witness ==
    /\ pc = "routed"
    /\ llm_calls = 1
    /\ llm_reply.outcome \in {"raise", "null_content"}

\* the Generic handler, if it ran, returned a non-empty text
GenericDidNotFail ==
    /\ \A k \in DOMAIN caught : caught[k].agent # "generic"
    /\ \A k \in DOMAIN context.execution_trace :
          context.execution_trace[k] # "generic: Set response (0 chars)"

\* C10: when the SQL stage has recorded an error with set_error(msg, "sql"),
\* the Generic handler is invoked once as a fallback and the response carries
\* its text, agent_used = "generic" and error = msg.
C10_SqlErrorFallsBackToGeneric ==
    (pc = "done" /\ recorded # <<>> /\ "generic" \in agents /\ GenericDidNotFail)
        => /\ calls["generic"] = 1
           /\ response.agent_used = "generic"
           /\ response.response \in GenericReturns
           /\ response.error = recorded[Len(recorded)].msg

\* stage j of the plan is a SQL stage whose handler was called and whose call
\* ended without an exception reaching execute
SqlStageReturned(j) ==
    /\ plan.agents[j] = "sql"
    /\ j \notin skipped
    /\ \A k \in DOMAIN caught : caught[k].stage # j

\* the Analysis handler is being called
AnalysisInvoked == pc = "await" /\ CurrentAgent = "analysis"

DataQueryServed ==
    /\ pc = "done"
    /\ plan.agents = <<"sql", "analysis">>
    /\ Len(returned) = 2
    /\ ~returned[1].is_none
    /\ ~returned[1].sql_results.is_none
    /\ returned[1].sql_results.success
    /\ returned[1].sql_results.row_count > 0

\* both handlers were invoked once, SQL first, and the response is the
\* Analysis handler's
AnalysisAnswers ==
    /\ calls["sql"] = 1 /\ calls["analysis"] = 1
    /\ attempted = <<1, 2>>
    /\ returned[1].agent = "sql" /\ returned[2].agent = "analysis"
    /\ response.response = returned[2].response
    /\ response.agent_used = "analysis"
    /\ response.data_analyzed = TRUE
    /\ response.sql_query = returned[1].sql_query

\* C12 as stated: in the plan [SQL, ANALYSIS], when the SQL stage produced a
\* successful non-empty result and the Analysis handler returned, both were
\* invoked once in that order and the response is the Analysis text with
\* agent_used = "analysis", data_analyzed = true and the SQL stage's query.
C12_AnalysisAnswersWhenItReturns == DataQueryServed => AnalysisAnswers

\* C12 amended: the same, when the text the Analysis handler returned is not
\* empty.
C12_AnalysisAnswersWithText ==
    (DataQueryServed /\ returned[2].response # "") => AnalysisAnswers

C12_Witness ==
    /\ DataQueryServed
    /\ returned[2].response = "Analyse des resultats"
    /\ response.response = "Analyse des resultats"
    /\ response.sql_query = "SELECT 1"
    /\ plan.name = "data_query"

\* a handler call returned data: a successful query result, or an analysis of
\* the document structure
SomeStageObtainedData ==
    \E k \in DOMAIN returned :
        \/ /\ returned[k].agent = "sql"
           /\ ~returned[k].is_none
           /\ ~returned[k].sql_results.is_none
           /\ returned[k].sql_results.success
        \/ returned[k].agent = "architecture"

\* C13: data_analyzed is true in the response only if a stage obtained data:
\* it is false when the SQL stage ended without a successful query result and
\* no other stage analysed data; the generic plan always gives data_analyzed
\* = false and no sql_query.
C13_DataAnalyzedOnlyWithData ==
    pc = "done" =>
        /\ response.data_analyzed => SomeStageObtainedData
        /\ plan.agents = <<"generic">> =>
                /\ response.data_analyzed = FALSE
                /\ response.sql_query = None

\* C14: AnalysisAgent.process_message calls the LLM only for a successful
\* result with at least one row; a successful result without rows gets the
\* templated empty-result message and a failed result the templated SQL-error
\* message with its error text, both without an LLM call.
C14_AnalysisCallsLLMOnlyWithRows ==
    call.op = "analysis" =>
        LET r == call.sql_results
        IN  /\ requests.llm <= 1
            /\ requests.llm = 1 => r.success /\ Len(r.data) >= 1
            /\ (pc = "returned" /\ r.success /\ Len(r.data) = 0)
                  => /\ result.text = _handle_empty_results
                     /\ requests.llm = 0
            /\ (pc = "returned" /\ ~r.success)
                  => /\ result.text = _handle_sql_error(r)
                     /\ requests.llm = 0

C14_Witness ==
    /\ pc = "returned"
    /\ call.op = "analysis"
    /\ call.sql_results.success
    /\ Len(call.sql_results.data) = 0
    /\ result.text = _handle_empty_results
    /\ requests.llm = 0

\* the result of a query that succeeded without rows, as the agents see it
ZeroRowResult == QueryResult(TRUE, <<>>, Columns, None, 0)

\* the SQL stage of a plan [SQL] or [SQL, ANALYSIS] returned the tuple
\* SQLAgent builds for a successful query without rows, and the Analysis
\* handler, where it returned, returned what AnalysisAgent returns for it
ZeroRowQueryProcessed ==
    /\ plan.agents \in {<<"sql">>, <<"sql", "analysis">>}
    /\ Len(returned) >= 1
    /\ ~returned[1].is_none
    /\ returned[1].sql_query # None
    /\ returned[1].sql_results = SqlResult(TRUE, 0)
    /\ returned[1].response
          = _format_successful_sql_response(returned[1].sql_query, ZeroRowResult)
    /\ \A k \in 2..Len(returned) :
          returned[k].response = AnalysisBeforeLLM(ZeroRowResult).text

NamesForbiddenKeyword(q) ==
    \E k \in 1..Len(q), kw \in {"DROP", "DELETE", "UPDATE", "INSERT", "ALTER",
                                "CREATE", "TRUNCATE"} :
        /\ k + Len(kw) - 1 <= Len(q)
        /\ StrUpper(SubSeq(q, k, k + Len(kw) - 1)) = kw

\* the statement starts with SELECT (leading blanks and case set aside)
IsSelectStatement(q) ==
    LET t == StrStrip(q)
    IN  Len(t) >= 6 /\ StrUpper(SubSeq(t, 1, 6)) = "SELECT"

UnbalancedParentheses(q) == CountChar(q, "(") # CountChar(q, ")")

\* the messages of validate_sql_query for a rejected query
ValidationMessages ==
    {"Requete interdite: contient le mot-cle '" \o kw \o "'" :
        kw \in {"DROP", "DELETE", "UPDATE", "INSERT", "ALTER", "CREATE",
                "TRUNCATE"}}
    \cup {"Seules les requetes SELECT sont autorisees",
          "Parentheses non equilibrees"}

\* C16: execute_sql answers a query that names a forbidden keyword, is no
\* SELECT statement or has unbalanced parentheses with a failed result that
\* carries the validation message, and issues no network request for it; a
\* request is issued only for a query that passes the validation.
C16_RejectedQueryMakesNoRequest ==
    call.op = "execute_sql" =>
        LET q == call.sql_query
            bad == \/ NamesForbiddenKeyword(q)
                   \/ ~IsSelectStatement(q)
                   \/ UnbalancedParentheses(q)
        IN  /\ requests.http <= 1
            /\ bad => /\ requests.http = 0
                      /\ pc = "returned"
                      /\ ~result.value.success
                      /\ result.value.error \in ValidationMessages
            /\ ~bad => requests.http = 1

C16_Witness ==
    /\ call.op = "execute_sql"
    /\ call.sql_query = "SELECT 1; drop table t"
    /\ pc = "returned"
    /\ result.value.error = "Requete interdite: contient le mot-cle 'DROP'"
    /\ requests.http = 0

\* C17: every result execute_sql returns: when success is true, row_count is
\* the length of data; when success is false, data is empty and an error
\* description is present.
C17_QueryResultInvariant ==
    (call.op = "execute_sql" /\ pc = "returned") =>
        LET r == result.value
        IN  /\ r.success => r.row_count = Len(r.data)
            /\ ~r.success => /\ r.data = <<>>
                             /\ r.error # None
                             /\ r.error # ""

C17_Witness ==
    /\ call.op = "execute_sql"
    /\ pc = "returned"
    /\ requests.http = 1
    /\ result.value.success
    /\ Len(result.value.data) = 2
    /\ result.value.row_count = 2

\* the stages that may be named next to an error: the one that recorded it
\* (the executor itself for a missing credential) and the stages after it
ErrorAttributions ==
    IF recorded = <<>> THEN {"pipeline_executor"}
    ELSE {plan.agents[j] : j \in recorded[1].stage..Len(plan.agents)}

\* C18: whenever error is set, in the context during execute and in the
\* returned response, agent_used names the stage that recorded the error or
\* a later stage that set a response, and is never "none".
C18_ErrorAndAgentUsedConsistent ==
    /\ context.error # None =>
          /\ context.agent_used # "none"
          /\ context.agent_used \in ErrorAttributions
    /\ (pc = "done" /\ response.error # None) =>
          /\ response.agent_used # "none"
          /\ response.agent_used \in ErrorAttributions

\* the opening sentence of the apology for an error recorded by stage
ApologyOpening(stage) ==
    CASE stage = "sql" -> "Je ne peux pas executer votre requete sur les donnees."
      [] stage = "architecture" ->
            "Je ne peux pas analyser la structure de vos donnees."
      [] OTHER -> "Je rencontre une difficulte technique."

C19_HandlersReturnNormally ==
    call.op \in {"generic", "sql", "analysis"} => pc # "escaped"

RECURSIVE SumOver(_, _)
SumOver(f, keys) ==
    IF keys = {} THEN 0
    ELSE LET k == CHOOSE x \in keys : TRUE
         IN  f[k] + SumOver(f, keys \ {k})

\* C22: get_stats reports the total request count and one usage counter per
\* registered plan name (generic, data_query, architecture_review): all are
\* 0 on a new orchestrator, total_requests is the number of requests
\* processed, and the plan counters add up to the number of requests that
\* reached routing.
C22_StatsCountPlans ==
    stats.constructed =>
        LET s == get_stats(stats)
        IN  /\ DOMAIN s.agent_usage = RegisteredPlanNames
            /\ http.state = "none" =>
                  /\ s.total_requests = 0
                  /\ \A n \in DOMAIN s.agent_usage : s.agent_usage[n] = 0
            /\ http.state = "answered" =>
                  SumOver(s.agent_usage, DOMAIN s.agent_usage) = http.routing

\* the request body is well formed: JSON, an object, with a document id, a
\* list of messages and a webhook address
WellFormed(body) ==
    /\ body.json = "dict"
    /\ body.documentId \notin {None, ""}
    /\ body.has_messages
    /\ body.webhookUrl \notin {None, ""}

C24_RegistryIsReadOnly ==
    /\ DOMAIN registry = {"generic", "data_query", "architecture_review"}
    /\ registry["generic"] = ExecutionPlan("generic", <<"generic">>, FALSE)
    /\ registry["data_query"]
          = ExecutionPlan("data_query", <<"sql", "analysis">>, TRUE)
    /\ registry["architecture_review"]
          = ExecutionPlan("architecture_review", <<"architecture">>, TRUE)
    /\ \A n \in DOMAIN registry :
          \A i \in DOMAIN registry[n].agents :
              registry[n].agents[i] \in {"generic", "sql", "analysis", "architecture"}

\* a routed data_query plan has been executed to the end, both stages tried
C24_Witness ==
    /\ pc = "done"
    /\ llm_calls = 1
    /\ ~routed.raised /\ routed.plan.name = "data_query"
    /\ plan = routed.plan
    /\ Len(attempted) = 2

C26_ResponseIncludesStageFailures ==
    (pc = "done" /\ caught # <<>>) =>
        /\ response.error # None
        /\ \E k \in DOMAIN caught : Contains(response.error, caught[k].msg)
        /\ \A k \in DOMAIN caught :
              \E j \in DOMAIN context.execution_trace :
                  context.execution_trace[j]
                      = caught[k].agent \o ": Error: " \o caught[k].msg

\* the handler return at position k of returned was followed by a
\* set_response call of its stage: always for the Generic, Analysis and
\* Architecture stages, and for the SQL stage when it returned a tuple and
\* no analysis was in the context yet
WroteResponse(k) ==
    IF returned[k].agent = "sql"
    THEN /\ ~returned[k].is_none
         /\ \A j \in 1..(k - 1) : returned[j].agent # "analysis"
    ELSE TRUE

\* the stages that wrote the response text, and the stages that recorded an
\* error, each with its position in the plan
ResponseWriters ==
    {[stage |-> returned[k].stage, agent |-> returned[k].agent,
      text |-> returned[k].response] : k \in {j \in DOMAIN returned : WroteResponse(j)}}

ErrorRecorders ==
    {[stage |-> recorded[k].stage, agent |-> "sql", text |-> None] :
        k \in DOMAIN recorded}

\* the element of the non-empty set S with the greatest stage
LastOf(S) == CHOOSE x \in S : \A y \in S : y.stage <= x.stage

\* the response of an executed plan holds the fixed fallback text, which
\* _build_response substitutes
DefaultSubstituted ==
    response.response = FallbackResponse

\* C27 as stated: in every final response the text and the attributing stage
\* come from the same writer: agent_used is the stage whose set_response
\* wrote the returned text, or "none" exactly when the text is the fixed
\* fallback string.
C27_TextAndAttributionSameWriter ==
    (pc = "done" /\ idx > 0) =>
        /\ response.agent_used = "none" <=> DefaultSubstituted
        /\ ~DefaultSubstituted =>
              /\ ResponseWriters # {}
              /\ response.response = LastOf(ResponseWriters).text
              /\ response.agent_used = LastOf(ResponseWriters).agent

\* C27, amended: agent_used is the stage that last called set_response or
\* set_error (the last contributor), or "none" exactly when the text is the
\* fixed fallback string; the text is the one the last set_response wrote;
\* and where no stage recorded an error after that set_response, text and
\* agent_used come from the same writer.
C27_AttributionIsLastContributor ==
    (pc = "done" /\ idx > 0) =>
        /\ response.agent_used = "none" <=> DefaultSubstituted
        /\ ~DefaultSubstituted =>
              /\ ResponseWriters # {}
              /\ response.response = LastOf(ResponseWriters).text
              /\ response.agent_used
                    = LastOf(ResponseWriters \cup ErrorRecorders).agent
              /\ (\A e \in ErrorRecorders :
                      e.stage < LastOf(ResponseWriters).stage)
                    => response.agent_used = LastOf(ResponseWriters).agent

\* the Generic stage wrote the text and the SQL stage after it recorded an
\* error: the response has the text of one and the name of the other
C27_Witness ==
    /\ pc = "done"
    /\ plan.agents = <<"generic", "sql">>
    /\ Len(recorded) = 1
    /\ response.response = "Bonjour"
    /\ response.agent_used = "sql"
    /\ response.error = "Permission denied"

\* C28: in a plan where an Analysis stage follows the SQL stage, the SQL
\* stage does not set the final response text: after the SQL stage of the
\* data_query plan completes, response_text is still unset and agent_used is
\* not "sql".
C28_SqlLeavesResponseToAnalysis ==
    ( /\ pc = "loop"
      /\ plan = AVAILABLE_PLANS["data_query"]
      /\ idx = 2
      /\ Len(returned) = 1
      /\ ~returned[1].is_none
      /\ Len(caught) = 0 )
        => /\ context.response_text = None
           /\ context.agent_used # "sql"

\* the messages of seq that are no system messages, in their order
WithoutSystem(seq) == SelectSeq(seq, IsNotSystem)

\* the n most recent messages of seq, in their order
MostRecent(seq, n) ==
    IF n >= Len(seq) THEN seq ELSE SubSeq(seq, Len(seq) - n + 1, Len(seq))

\* C29: filter_history returns at most max_messages messages for every
\* max_messages >= 0 and every history: the most recent ones in chronological
\* order, taken after removing system messages (unless
\* include_system_messages) and after removing the last message when
\* exclusion applies; it returns the empty list when history is disabled.
C29_AtMostMaxMessages ==
    (pc = "returned" /\ call.op = "filter_history") =>
        LET cfg == call.cfg
            kept == IF cfg.include_system_messages THEN call.messages
                    ELSE WithoutSystem(call.messages)
            excl == IF call.exclude_last = "<None>" THEN cfg.exclude_current
                    ELSE call.exclude_last = "True"
            base == IF excl /\ Len(kept) > 0
                    THEN SubSeq(kept, 1, Len(kept) - 1) ELSE kept
        IN  IF cfg.enabled
            THEN /\ Len(result.messages) <= cfg.max_messages
                 /\ result.messages = MostRecent(base, cfg.max_messages)
            ELSE result.messages = <<>>

\* the positions of text where a line starts
LineStarts(text) ==
    {1} \cup {i + 1 : i \in {j \in 1..(Len(text) - 1) : SubSeq(text, j, j) = "\n"}}

\* the lines of the table: those that open with "| "
TableLines(text) ==
    {i \in LineStarts(text) : SubSeq(text, i, i + 1) = "| "}

\* the rows rendered: the table lines after the header and the separator
RenderedRows(text) == Cardinality(TableLines(text)) - 2

\* the row count re-parsed from the header
HeaderCount(text) ==
    LET found == {n \in 0..(MaxFormatRows + max_rows) :
                     StartsWith(text, "Donnees (" \o NatToStr(n) \o " ligne")}
    IN  IF found = {} THEN 0 - 1 ELSE CHOOSE n \in found : TRUE

\* the number of further rows the suffix announces, 0 without a suffix
SuffixCount(text) ==
    LET ends(n) == LET t == "|\n\n... et " \o NatToStr(n) \o " autres lignes.\n"
                   IN  /\ Len(text) >= Len(t)
                       /\ SubSeq(text, Len(text) - Len(t) + 1, Len(text)) = t
        found == {n \in 0..(MaxFormatRows + max_rows) : ends(n)}
    IN  IF found = {} THEN 0 ELSE CHOOSE n \in found : TRUE

\* the end of the line that starts at position i
LineEnd(text, i) ==
    CHOOSE e \in i..Len(text) :
        /\ SubSeq(text, e, e) = "\n"
        /\ \A k \in i..(e - 1) : SubSeq(text, k, k) # "\n"

\* some cell of the table line that starts at i is longer than n characters:
\* n + 1 consecutive characters between the borders hold no separator
HasCellLongerThan(text, i, n) ==
    LET first == i + 2
        last  == LineEnd(text, i) - 3
        seps  == {j \in first..(last - 2) : SubSeq(text, j, j + 2) = " | "}
    IN  \E a \in first..(last - n) :
            \A j \in seps : j + 2 < a \/ j > a + n

\* C30: for every successful result set with columns and N >= 1 rows
\* (dictionaries), the header of the text states N, exactly min(N, 20) rows
\* are rendered, a suffix announcing N - 20 further rows is present if and
\* only if N > 20, so rendered rows plus the suffix count equal N; and every
\* rendered cell is at most 30 characters long.
C30_RowAccounting ==
    (pc = "returned" /\ call.op = "format_data") =>
        LET n == Len(call.sql_results.data)
            text == result.text
        IN  /\ ~result.raised
            /\ HeaderCount(text) = n
            /\ RenderedRows(text) = (IF n < 20 THEN n ELSE 20)
            /\ SuffixCount(text) > 0 <=> n > 20
            /\ n > 20 => SuffixCount(text) = n - 20
            /\ RenderedRows(text) + SuffixCount(text) = n
            /\ \A i \in TableLines(text) : ~HasCellLongerThan(text, i, 30)

\* a result set of more than 20 rows with a cell of more than 30 characters
\* has been formatted
C30_Witness ==
    /\ pc = "returned"
    /\ call.op = "format_data"
    /\ Len(call.sql_results.data) = 22
    /\ call.sql_results.data[1] = LongRow
    /\ SuffixCount(result.text) = 2
    /\ Contains(result.text, "| Compagnie Generale des Eaux... |")

====
